---- MODULE Spec2Model ----
(***************************************************************************)
(* State-machine model of the synchronisation engine of the Reddit PWA     *)
(* (src/app.js): the sync queue and its scheduler (queueSyncJob,           *)
(* processSyncQueue, executeJob, fetchFeedWithRetry), the staging of       *)
(* fetched posts (addPostsToPending, getNewPostsOnly) and their            *)
(* application to the feeds (applyPendingUpdates, removeDuplicates,        *)
(* cleanupOldPostsByAge).                                                  *)
(*                                                                         *)
(* The program is single threaded: an event handler or the continuation of *)
(* an await runs to its next await without interruption.  Each action      *)
(* below is one such uninterrupted run.  Time is counted in days: Date.now *)
(* () / 86400000 and created_utc / 86400 are both written as day numbers   *)
(* in the queue and feed part; the rate limiter and the requests of         *)
(* fetchFeedWithRetry are modelled on a clock of 100 ms ticks.              *)
(***************************************************************************)
EXTENDS Integers, Sequences, FiniteSets, TLC

VARIABLES
    syncQueue,          \* state.syncQueue: sequence of job records
    isProcessingQueue,  \* state.isProcessingQueue
    passes,             \* the suspended activations of processSyncQueue
    nextId,             \* stands for the random job id: a fresh number
    executions,         \* per job id in the queue: the executeJob calls that have returned
    feeds,              \* state.feeds
    now,                \* Date.now(), in days
    lastCall,           \* the last operation called, with its arguments and result
    rateLimitState,     \* state.rateLimitState
    clock,              \* Date.now(), in ticks of 100 ms
    fetcher,            \* the activation of fetchFeedWithRetry and where it is suspended
    sent,               \* history of the requests that this page has let through
    subreddits,         \* state.subreddits: the followed subreddits
    blocked,            \* state.blocked: the blocked subreddits
    blockedUsers,       \* state.blockedUsers
    surfaced,           \* history: the jobs the queue indicator has counted as failed
    saveTimeout,        \* the timer of debouncedSave is pending
    appState,           \* localStorage.appState: <<>>, or the snapshot written last
    pendingPostsLock    \* the promise pendingPostsLock: "resolved" or "rejected"

vars == <<syncQueue, isProcessingQueue, passes, nextId, executions, feeds,
          now, lastCall, rateLimitState, clock, fetcher, sent,
          subreddits, blocked, blockedUsers, surfaced,
          saveTimeout, appState, pendingPostsLock>>

\* The timer of debouncedSave and the stored snapshot.  They are followed by
\* the actions of SpecDebounce; the other actions leave persistence out (a
\* restart there, loadState, reads the snapshot of the present state).
saveVars == <<saveTimeout, appState>>

\* the lists of the user
listVars == <<subreddits, blocked, blockedUsers>>

\* the variables of the rate limiter and of the fetch step
rateVars == <<rateLimitState, clock, fetcher, sent>>

\* the variables of the queue, the scheduler and the feeds
syncVars == <<syncQueue, isProcessingQueue, passes, nextId, executions, feeds, now,
              listVars, surfaced, saveVars, pendingPostsLock>>

----------------------------------------------------------------------------
(* Program constants *)

MAX_RETRIES == 3

MAX_POST_AGE_DAYS == 30

InnerRetryCap == 3

(* Bounds of the model *)

MaxJobs == 3

MaxFetch == 2

MaxPending == 2

MaxTicks == 1

\* the clock starts after the newest post of the model and advances in steps
\* of a third of the retention period
StartNow == MAX_POST_AGE_DAYS + 10

TickStep == MAX_POST_AGE_DAYS \div 3

----------------------------------------------------------------------------
(* Values *)

NULL == "<null>"

\* null where a time is expected (Date.now() is never 0)
NoTime == 0

Min(a, b) == IF a <= b THEN a ELSE b

Max(a, b) == IF a >= b THEN a ELSE b

\* String.prototype.toLowerCase on the names that occur in the model
ToLowerCase(s) == IF s = "A" THEN "a" ELSE IF s = "B" THEN "b" ELSE IF s = "U" THEN "u" ELSE s

Post(i, s, c) == [id |-> i, subreddit |-> s, created_utc |-> c]

\* The posts that exist on the remote side.  A post's subreddit field is the
\* canonical name ("A"), which may differ in case from the name the user
\* typed ("a").  Posts 3 and 4 have the same creation time.
RemotePosts == { Post(1, "A", 10), Post(2, "A", 30), Post(3, "A", 20), Post(4, "B", 20) }

\* Names the user follows: a plain subreddit and an aggregate (r/all), whose
\* listing holds posts of any subreddit.
SourceKeys == { "a", "all" }

\* the posts the aggregate listings (r/all, r/popular) show at present
Trending == { p \in RemotePosts : p.created_utc = 20 }

JobTypes == { "fetch_subreddit", "fetch_popular" }

JobKeys == { <<"fetch_subreddit", s>> : s \in SourceKeys } \cup { <<"fetch_popular", NULL>> }

FeedTypes == { "my", "popular" }

\* the posts r/<sub>.json can list
ListedIn(sub) ==
    IF sub \in { "all", "popular" } THEN Trending
    ELSE { p \in RemotePosts : ToLowerCase(p.subreddit) = ToLowerCase(sub) }

SeqsUpTo(S, n) == UNION { [1..k -> S] : k \in 0..n }

\* every listing the remote side can answer with, repeated entries included
Responses(sub, n) == SeqsUpTo(ListedIn(sub), n)

Ids(posts) == [i \in 1..Len(posts) |-> posts[i].id]

IdSet(posts) == { posts[i].id : i \in 1..Len(posts) }

----------------------------------------------------------------------------
(* Merger: getNewPostsOnly, addPostsToPending, removeDuplicates, sort *)

EmptyPending == [posts |-> <<>>, count |-> 0]

LastFetchKeys == SourceKeys \cup { "_popular" }

EmptyFeed == [posts |-> <<>>, pending |-> EmptyPending,
              lastFetch |-> [k \in LastFetchKeys |-> 0]]

InitFeeds == [my |-> EmptyFeed, popular |-> EmptyFeed, starred |-> [posts |-> <<>>]]

RECURSIVE removeDuplicates(_)
removeDuplicates(posts) ==
    IF posts = <<>> THEN <<>>
    ELSE LET front == SubSeq(posts, 1, Len(posts) - 1)
             last == posts[Len(posts)]
         IN IF last.id \in IdSet(front)
            THEN removeDuplicates(front)
            ELSE Append(removeDuplicates(front), last)

\* an unstable sort: x goes before the elements of its own age
InsertUnstable(sorted, x) ==
    LET k == Cardinality({ i \in 1..Len(sorted) : sorted[i].created_utc > x.created_utc })
    IN SubSeq(sorted, 1, k) \o <<x>> \o SubSeq(sorted, k + 1, Len(sorted))

\* Where Array.prototype.sort (stable) with (a, b) => b.created_utc - a.created_utc
\* puts x among the already sorted elements that preceded it: after every
\* element that is at least as new.
InsertByCreatedDesc(sorted, x) ==
    LET k == Cardinality({ i \in 1..Len(sorted) : sorted[i].created_utc >= x.created_utc })
    IN SubSeq(sorted, 1, k) \o <<x>> \o SubSeq(sorted, k + 1, Len(sorted))

\* the comparator written the other way round: a.created_utc - b.created_utc
RECURSIVE sortByCreatedAsc(_)
sortByCreatedAsc(posts) ==
    IF posts = <<>> THEN <<>>
    ELSE LET rest == sortByCreatedAsc(SubSeq(posts, 1, Len(posts) - 1))
             x == posts[Len(posts)]
             k == Cardinality({ i \in 1..Len(rest) : rest[i].created_utc <= x.created_utc })
         IN SubSeq(rest, 1, k) \o <<x>> \o SubSeq(rest, k + 1, Len(rest))

RECURSIVE sortByCreatedDesc(_)
sortByCreatedDesc(posts) ==
    IF posts = <<>> THEN <<>>
    ELSE InsertByCreatedDesc(sortByCreatedDesc(SubSeq(posts, 1, Len(posts) - 1)),
                             posts[Len(posts)])

FromSubreddit(subreddit, p) ==
    subreddit = NULL \/ ToLowerCase(p.subreddit) = ToLowerCase(subreddit)

getNewPostsOnly(fetchedPosts, subreddit, feed) ==
    LET existingIds ==
            { feed.posts[i].id : i \in { k \in 1..Len(feed.posts) :
                                          FromSubreddit(subreddit, feed.posts[k]) } }
            \cup
            { feed.pending.posts[i].id : i \in { k \in 1..Len(feed.pending.posts) :
                                          FromSubreddit(subreddit, feed.pending.posts[k]) } }
    IN SelectSeq(fetchedPosts, LAMBDA p : p.id \notin existingIds)

RECURSIVE MaxCreated(_)
MaxCreated(posts) ==
    IF Len(posts) = 1 THEN posts[1].created_utc
    ELSE Max(posts[1].created_utc, MaxCreated(Tail(posts)))

addPostsToPending(fs, posts, feedType, subreddit) ==
    LET feed == fs[feedType]
        newPosts == getNewPostsOnly(posts, subreddit, feed)
        staged == feed.pending.posts \o newPosts
        key == IF subreddit # NULL THEN subreddit
               ELSE IF feedType = "popular" THEN "_popular" ELSE NULL
    IN IF Len(newPosts) > 0
       THEN [fs EXCEPT ![feedType] =
                [feed EXCEPT !.pending = [posts |-> staged, count |-> Len(staged)],
                             !.lastFetch = IF key = NULL THEN @
                                           ELSE [@ EXCEPT ![key] = MaxCreated(newPosts)]]]
       ELSE fs

\* p.subreddit.toLowerCase() in the filters of getNewPostsOnly throws a
\* TypeError on a post of the feed whose subreddit is undefined (NULL here);
\* the filters call it only when the subreddit of the call is not null
getNewPostsOnlyThrows(subreddit, feed) ==
    /\ subreddit # NULL
    /\ \E i \in 1..Len(feed.posts \o feed.pending.posts) :
          (feed.posts \o feed.pending.posts)[i].subreddit = NULL

\* pendingPostsLock = pendingPostsLock.then(() => { ... }): the callback runs
\* when the promise is fulfilled and is skipped when it is rejected; a
\* callback that throws rejects the promise that replaces it
chainOnLock(fs, lock, posts, feedType, subreddit) ==
    IF lock = "rejected" \/ getNewPostsOnlyThrows(subreddit, fs[feedType])
    THEN [feeds |-> fs, lock |-> "rejected"]
    ELSE [feeds |-> addPostsToPending(fs, posts, feedType, subreddit), lock |-> "resolved"]

\* one "if (pending.posts.length > 0) { ... }" block of applyPendingUpdates
applyFeed(feed) ==
    IF Len(feed.pending.posts) > 0
    THEN [feed EXCEPT !.posts = sortByCreatedDesc(removeDuplicates(feed.pending.posts \o feed.posts)),
                      !.pending = EmptyPending]
    ELSE feed

\* an eviction that also removes the posts exactly at the age limit
cleanupOldPostsAtLimit(fs, t) ==
    LET bookmarkedIds == IdSet(fs.starred.posts)
        Keep(post) == ~ (t - post.created_utc >= MAX_POST_AGE_DAYS /\ post.id \notin bookmarkedIds)
    IN [fs EXCEPT !.my.posts = SelectSeq(@, Keep),
                  !.popular.posts = SelectSeq(@, Keep)]

cleanupOldPostsByAge(fs, t) ==
    LET bookmarkedIds == IdSet(fs.starred.posts)
        Keep(post) == ~ (t - post.created_utc > MAX_POST_AGE_DAYS /\ post.id \notin bookmarkedIds)
    IN [fs EXCEPT !.my.posts = SelectSeq(@, Keep),
                  !.popular.posts = SelectSeq(@, Keep)]

applyPendingUpdates(fs, t) ==
    cleanupOldPostsByAge([fs EXCEPT !.my = applyFeed(@), !.popular = applyFeed(@)], t)

----------------------------------------------------------------------------
(* Job queue and scheduler *)

Job(i, type, subreddit, t) ==
    [id |-> i, type |-> type, subreddit |-> subreddit, status |-> "pending",
     retries |-> 0, timestamp |-> t, startTime |-> NoTime]

Terminal(status) == status \in { "completed", "failed_max_retries" }

\* a duplicate check that looks at waiting jobs only
isDuplicatePendingOnly(q, type, subreddit) ==
    \E i \in 1..Len(q) :
        /\ q[i].type = type
        /\ q[i].subreddit = subreddit
        /\ q[i].status = "pending"

\* a duplicate check that forgets the status
isDuplicateAnyStatus(q, type, subreddit) ==
    \E i \in 1..Len(q) :
        /\ q[i].type = type
        /\ q[i].subreddit = subreddit

isDuplicate(q, type, subreddit) ==
    \E i \in 1..Len(q) :
        /\ q[i].type = type
        /\ q[i].subreddit = subreddit
        /\ q[i].status # "completed"
        /\ q[i].status # "failed_max_retries"

Runnable(j) == j.status = "pending" \/ j.status = "failed"

\* a search that looks at the head of the queue only
FindRunnableHead(q) == IF Len(q) > 0 /\ Runnable(q[1]) THEN 1 ELSE 0

\* the search taken from the tail: the last waiting job
FindRunnableLast(q) ==
    IF \E i \in 1..Len(q) : Runnable(q[i])
    THEN CHOOSE i \in 1..Len(q) : Runnable(q[i]) /\ \A k \in (i + 1)..Len(q) : ~ Runnable(q[k])
    ELSE 0

\* state.syncQueue.find(j => j.status === 'pending' || j.status === 'failed')
FindRunnable(q) ==
    IF \E i \in 1..Len(q) : Runnable(q[i])
    THEN CHOOSE i \in 1..Len(q) : Runnable(q[i]) /\ \A k \in 1..(i - 1) : ~ Runnable(q[k])
    ELSE 0

\* the retry test off by one: job.retries > CONFIG.MAX_RETRIES
RECURSIVE NextJobOneMore(_, _)
NextJobOneMore(q, t) ==
    LET i == FindRunnable(q)
    IN IF i = 0 THEN [queue |-> q, job |-> 0]
       ELSE IF q[i].retries > MAX_RETRIES
            THEN NextJobOneMore([q EXCEPT ![i].status = "failed_max_retries"], t)
            ELSE [queue |-> [q EXCEPT ![i].status = "processing",
                                      ![i].startTime = t,
                                      ![i].retries = @ + 1],
                  job |-> q[i].id]

\* The while loop of processSyncQueue from its test up to the next
\* "await executeJob(job)" or to the end of the loop: job |-> 0 when the loop
\* has ended, else the id of the job that has been started.
RECURSIVE NextJob(_, _)
NextJob(q, t) ==
    LET i == FindRunnable(q)
    IN IF i = 0 THEN [queue |-> q, job |-> 0]
       ELSE IF q[i].retries >= MAX_RETRIES
            THEN NextJob([q EXCEPT ![i].status = "failed_max_retries"], t)
            ELSE [queue |-> [q EXCEPT ![i].status = "processing",
                                      ![i].startTime = t,
                                      ![i].retries = @ + 1],
                  job |-> q[i].id]

\* the pruning that keeps the jobs that have failed for good
RemoveCompleted(q) == SelectSeq(q, LAMBDA j : j.status # "completed")

RemoveFinished(q) == SelectSeq(q, LAMBDA j : j.status # "completed" /\ j.status # "failed_max_retries")

\* auto apply of a feed that is still empty (processSyncQueue, after finally)
autoApplyFeed(feed) ==
    IF Len(feed.posts) = 0 /\ Len(feed.pending.posts) > 0
    THEN [feed EXCEPT !.posts = sortByCreatedDesc(removeDuplicates(feed.pending.posts \o feed.posts)),
                      !.pending = EmptyPending]
    ELSE feed

\* the auto apply judged on both feeds together: only when neither feed has
\* an applied post
autoApplyAllOrNothing(fs) ==
    IF Len(fs.my.posts) + Len(fs.popular.posts) = 0
       /\ Len(fs.my.pending.posts) + Len(fs.popular.pending.posts) > 0
    THEN [fs EXCEPT !.my = applyFeed(@), !.popular = applyFeed(@)]
    ELSE fs

autoApply(fs) == [fs EXCEPT !.my = autoApplyFeed(@), !.popular = autoApplyFeed(@)]

JobById(q, id) == CHOOSE i \in 1..Len(q) : q[i].id = id

SetStatus(q, id, status) ==
    IF \E i \in 1..Len(q) : q[i].id = id
    THEN [q EXCEPT ![JobById(q, id)].status = status]
    ELSE q

Call(op, type, subreddit, posts, ret) ==
    [op |-> op, type |-> type, subreddit |-> subreddit, posts |-> posts, ret |-> ret]

NoCall == Call("none", NULL, NULL, <<>>, 0)

\* const maxRetries = Math.min(3, CONFIG.MAX_RETRIES - retryCount), retryCount = job.retries - 1
maxRetriesOf(job) == Min(InnerRetryCap, MAX_RETRIES - (job.retries - 1))

\* updateQueueStatus: the ids of the jobs that the indicator counts in
\* "N failed", which it shows when no job is processing
updateQueueStatus(q) ==
    IF \E i \in 1..Len(q) : q[i].status = "processing" THEN {}
    ELSE { q[i].id : i \in { k \in 1..Len(q) : q[k].status = "failed" } }

\* what the calls of updateQueueStatus show while the loop of the pass runs
\* on from queue q: the call after a job has been started, or the call in
\* the finally block
shownByLoop(q, t) ==
    LET r == NextJob(q, t)
    IN IF r.job # 0 THEN updateQueueStatus(r.queue)
       ELSE updateQueueStatus(RemoveFinished(r.queue))

\* A pass resumes (or starts) its loop on queue q with feeds fs, the other
\* suspended passes being `others`; ex counts the executions so far.
Resume(q, fs, others, ex) ==
    LET r == NextJob(q, now)
    IN IF r.job # 0
       THEN /\ syncQueue' = r.queue
            /\ passes' = others \cup
                  { [job |-> r.job, attempt |-> 0,
                     maxRetries |-> maxRetriesOf(r.queue[JobById(r.queue, r.job)])] }
            /\ isProcessingQueue' = TRUE
            /\ feeds' = fs
            /\ executions' = ex
       ELSE /\ syncQueue' = RemoveFinished(r.queue)
            /\ passes' = others
            /\ isProcessingQueue' = FALSE
            /\ feeds' = autoApply(fs)
            /\ executions' = [i \in DOMAIN ex |->
                                 IF \E k \in 1..Len(r.queue) : r.queue[k].id = i /\ ~ Terminal(r.queue[k].status)
                                 THEN ex[i] ELSE 0]

----------------------------------------------------------------------------
(* Rate limiter and fetch step.  Times are in ticks of 100 ms.  The window, *)
(* its budget and the request timeout are a tenth of the program's (6 s, 5  *)
(* requests, 1.5 s for 60 s, 50 requests, 15 s): the rate of the budget and *)
(* the two short delays, which are the program's, keep their proportions.   *)

TicksPerSecond == 10

TicksPerDay == 24 * 60 * 60 * TicksPerSecond

\* CONFIG.REQUEST_INTERVAL: 1200 ms
REQUEST_INTERVAL == 12

\* SYNC_CONFIG.RETRY_DELAY_MS: 1000 ms
RETRY_DELAY_MS == 10

\* the 100 ms added to the wait for the end of the window
ResetMargin == 1

\* CONFIG.REQUESTS_PER_MINUTE, a tenth
REQUESTS_PER_MINUTE == 5

\* CONFIG.RATE_LIMIT_RESET_INTERVAL, a tenth
RATE_LIMIT_RESET_INTERVAL == 60

\* CONFIG.REQUEST_TIMEOUT, a tenth
REQUEST_TIMEOUT == 15

\* Date.now() when the page is first opened
StartClock == 100

\* the model follows the clock this far beyond StartClock
MaxElapsed == 60

\* how long a response or a network error takes to arrive: less than a tick,
\* or some ticks
Durations == { 0, 5 }

\* time that passes between two calls of fetchFeedWithRetry
Pause == RETRY_DELAY_MS \div 2

\* values of the X-Ratelimit-Remaining header, NULL when it is absent
RemainingHeaders == { NULL, "0", "3.0", "-1" }

\* values of the X-Ratelimit-Reset header, NULL when it is absent
ResetHeaders == { NULL, "15" }

Statuses == { 200, 429 }

\* parseInt(s, 10) on the header values of the model
parseInt(s) ==
    CASE s = "0" -> 0
      [] s = "3.0" -> 3
      [] s = "-1" -> 0 - 1
      [] s = "15" -> 15

\* a delay that grows by the base at each retry
Linear(n) == n + 1

RECURSIVE Pow2(_)
Pow2(n) == IF n = 0 THEN 1 ELSE 2 * Pow2(n - 1)

\* the initial value of state.rateLimitState, also written by loadState
FreshRate(t) ==
    [lastRequestTime |-> 0, remainingRequests |-> REQUESTS_PER_MINUTE,
     resetTime |-> t + RATE_LIMIT_RESET_INTERVAL, requestCount |-> 0]

Expired(rl, t) == t >= rl.resetTime

\* "Reset counter if window expired"
resetWindow(rl, t) ==
    IF Expired(rl, t)
    THEN [rl EXCEPT !.remainingRequests = REQUESTS_PER_MINUTE,
                    !.resetTime = t + RATE_LIMIT_RESET_INTERVAL,
                    !.requestCount = 0]
    ELSE rl

\* updateRateLimitFromHeaders(response)
updateRateLimitFromHeaders(rl, remaining, reset) ==
    [rl EXCEPT
        !.remainingRequests = IF remaining # NULL THEN parseInt(remaining) ELSE @,
        !.resetTime = IF reset # NULL THEN parseInt(reset) * TicksPerSecond ELSE @]

\* the headers applied before the local accounting
accountAfterHeaders(rl, t, remaining, reset) ==
    LET corrected == [rl EXCEPT
            !.remainingRequests = IF remaining # NULL THEN parseInt(remaining) ELSE @,
            !.resetTime = IF reset # NULL THEN parseInt(reset) * TicksPerSecond ELSE @]
    IN [corrected EXCEPT !.lastRequestTime = t,
                         !.remainingRequests = Max(0, @ - 1),
                         !.requestCount = @ + 1]

\* fetchFeedWithRetry after "await fetch": "Update rate limit" and "Update
\* from headers if available"
account(rl, t, remaining, reset) ==
    updateRateLimitFromHeaders(
        [rl EXCEPT !.lastRequestTime = t,
                   !.remainingRequests = Max(0, @ - 1),
                   !.requestCount = @ + 1],
        remaining, reset)

\* One turn of the loop of waitForRateLimit at time t: the request may go at
\* once ("go"), after a wait for the interval with no further test ("sleep"),
\* or the loop waits for the end of the window and starts again ("blocked").
Gate(rl, t) ==
    LET r == resetWindow(rl, t)
        timeSinceLastRequest == t - r.lastRequestTime
    IN IF r.remainingRequests > 0
       THEN IF timeSinceLastRequest >= REQUEST_INTERVAL
            THEN [rl |-> r, outcome |-> "go", at |-> t]
            ELSE [rl |-> r, outcome |-> "sleep",
                  at |-> t + (REQUEST_INTERVAL - timeSinceLastRequest)]
       ELSE [rl |-> r, outcome |-> "blocked",
             at |-> t + Max(0, r.resetTime - t) + ResetMargin]

\* no call of fetchFeedWithRetry is active
Idle == [pc |-> "idle", retryCount |-> 0, attempt |-> 0, maxRetries |-> 0, at |-> 0]

\* fetchFeedWithRetry(feedType, subreddit, retryCount) at its first attempt:
\* const maxRetries = Math.min(3, CONFIG.MAX_RETRIES - retryCount)
Activation(retryCount) ==
    [Idle EXCEPT !.retryCount = retryCount,
                 !.maxRetries = Min(InnerRetryCap, MAX_RETRIES - retryCount)]

NothingSent == [last |-> NoTime, inWindow |-> 0, observed |-> FALSE]

\* history: the limiter has started a new window
NewWindow(h) == [h EXCEPT !.inWindow = 0]

\* history: a request goes out at time t
Send(h, t) == [h EXCEPT !.last = t, !.inWindow = Min(@ + 1, REQUESTS_PER_MINUTE + 1)]

InTime(t) == t <= StartClock + MaxElapsed

\* The activation f of fetchFeedWithRetry calls waitForRateLimit at time t,
\* or the loop of waitForRateLimit turns once more, the limiter being rl and
\* the history h.
waitForRateLimit(f, t, rl, h) ==
    LET g == Gate(rl, t)
        hw == IF Expired(rl, t) THEN NewWindow(h) ELSE h
    IN /\ InTime(g.at)
       /\ clock' = t
       /\ rateLimitState' = g.rl
       /\ IF g.outcome = "go"
          THEN /\ fetcher' = [f EXCEPT !.pc = "inflight", !.at = t]
               /\ sent' = Send(hw, t)
          ELSE /\ fetcher' = [f EXCEPT !.pc = IF g.outcome = "sleep" THEN "sleeping" ELSE "blocked",
                                       !.at = g.at]
               /\ sent' = hw

\* The pass takes a job that has not been executed yet and executeJob calls
\* fetchFeedWithRetry(feedType, subreddit, job.retries - 1) with retries 1.
fetchFeedWithRetry ==
    /\ fetcher.pc = "idle"
    /\ waitForRateLimit(Activation(0), clock, rateLimitState, sent)
    /\ lastCall' = Call("fetchFeedWithRetry", NULL, NULL, <<>>, 0)
    /\ UNCHANGED syncVars

\* the wait for the minimum interval is over: waitForRateLimit returns and
\* the request goes out
IntervalElapsed ==
    /\ fetcher.pc = "sleeping"
    /\ clock' = fetcher.at
    /\ fetcher' = [fetcher EXCEPT !.pc = "inflight"]
    /\ sent' = Send(sent, fetcher.at)
    /\ lastCall' = Call("intervalElapsed", NULL, NULL, <<>>, 0)
    /\ UNCHANGED <<rateLimitState, syncVars>>

\* the wait for the end of the window is over: the loop starts again
WindowWaitElapsed ==
    /\ fetcher.pc = "blocked"
    /\ waitForRateLimit(fetcher, fetcher.at, rateLimitState, sent)
    /\ lastCall' = Call("windowWaitElapsed", NULL, NULL, <<>>, 0)
    /\ UNCHANGED syncVars

\* The catch block of fetchFeedWithRetry at time t, the limiter being rl and
\* the history h: the delay before the next attempt, or, the attempts being
\* used up, the return of the error.  The pass then marks the job failed and
\* takes it again at once, which calls fetchFeedWithRetry with the next
\* retryCount, until the job has been executed MAX_RETRIES times.
Catch(t, rl, h) ==
    IF fetcher.attempt < fetcher.maxRetries
    THEN /\ InTime(t + RETRY_DELAY_MS * Pow2(fetcher.attempt))
         /\ clock' = t
         /\ rateLimitState' = rl
         /\ sent' = h
         /\ fetcher' = [fetcher EXCEPT !.pc = "backoff",
                                       !.at = t + RETRY_DELAY_MS * Pow2(fetcher.attempt)]
    ELSE IF fetcher.retryCount + 1 < MAX_RETRIES
    THEN waitForRateLimit(Activation(fetcher.retryCount + 1), t, rl, h)
    ELSE /\ clock' = t
         /\ rateLimitState' = rl
         /\ sent' = h
         /\ fetcher' = Idle

\* The response arrives d ticks after the request, with its status and its
\* rate limit headers.
Response(d, status, remaining, reset) ==
    LET t == fetcher.at + d
        rl == account(rateLimitState, t, remaining, reset)
        h == [sent EXCEPT !.observed = @ \/ remaining # NULL \/ reset # NULL]
    IN /\ fetcher.pc = "inflight"
       /\ InTime(t)
       /\ IF status = 200
          THEN /\ clock' = t
               /\ rateLimitState' = rl
               /\ sent' = h
               /\ fetcher' = Idle
          ELSE Catch(t, rl, h)
       /\ lastCall' = Call("response", remaining, reset, <<>>, status)
       /\ UNCHANGED syncVars

\* fetch rejects d ticks after the request: a network error, or the abort of
\* the request when d is the timeout
RequestFails(d) ==
    LET t == fetcher.at + d
    IN /\ fetcher.pc = "inflight"
       /\ InTime(t)
       /\ Catch(t, rateLimitState, sent)
       /\ lastCall' = Call("requestFails", NULL, NULL, <<>>, d)
       /\ UNCHANGED syncVars

\* the delay before the next attempt is over
BackoffElapsed ==
    /\ fetcher.pc = "backoff"
    /\ waitForRateLimit([fetcher EXCEPT !.attempt = @ + 1], fetcher.at, rateLimitState, sent)
    /\ lastCall' = Call("backoffElapsed", NULL, NULL, <<>>, 0)
    /\ UNCHANGED syncVars

\* setupPeriodicTasks, intervals.rateLimit, when it finds the window expired
rateLimitTimer ==
    /\ Expired(rateLimitState, clock)
    /\ rateLimitState' = resetWindow(rateLimitState, clock)
    /\ sent' = NewWindow(sent)
    /\ lastCall' = Call("rateLimitTimer", NULL, NULL, <<>>, 0)
    /\ UNCHANGED <<clock, fetcher, syncVars>>

\* nothing is fetched for a while
Pausing ==
    /\ fetcher.pc = "idle"
    /\ InTime(clock + Pause)
    /\ clock' = clock + Pause
    /\ lastCall' = Call("pause", NULL, NULL, <<>>, 0)
    /\ UNCHANGED <<rateLimitState, fetcher, sent, syncVars>>

----------------------------------------------------------------------------
(* The body of a response: response.json(), data.data.children and          *)
(* stripPostData                                                            *)

\* undefined where an id is expected (the ids of the posts are not 0); a Set
\* and Array.prototype.filter treat undefined like any other value
NoId == 0

\* an entry of a listing whose data has no id
IdlessPost == Post(NoId, "A", 20)

\* the entries data.data.children can hold for r/<sub>: the first post of the
\* listing, an entry without id and an entry without data
Children(sub) ==
    { [hasData |-> TRUE, data |-> q] :
          q \in { q \in ListedIn(sub) : \A r \in ListedIn(sub) : r.id >= q.id } \cup { IdlessPost } }
    \cup { [hasData |-> FALSE, data |-> IdlessPost] }

\* the bodies of the responses with status 200: a listing, a body that is not
\* JSON, and JSON without data.children
Payloads(sub) ==
    { [kind |-> "listing", children |-> c] : c \in SeqsUpTo(Children(sub), MaxFetch) }
    \cup { [kind |-> k, children |-> <<>>] : k \in { "notJson", "noChildren" } }

\* the fields of stripPostData that the model keeps
stripPostData(post) ==
    [id |-> post.id, subreddit |-> post.subreddit, created_utc |-> post.created_utc]

\* data.data.children.map(child => stripPostData(child.data))
mapStripPostData(children) ==
    [i \in 1..Len(children) |-> stripPostData(children[i].data)]

\* const data = await response.json();
\* const posts = data.data.children.map(child => stripPostData(child.data));
\* threw: one of the two statements throws (SyntaxError, or TypeError on
\* data.data.children or on post.id of an entry without data)
parseBody(payload) ==
    IF payload.kind # "listing"
       \/ \E i \in 1..Len(payload.children) : ~ payload.children[i].hasData
    THEN [threw |-> TRUE, posts |-> <<>>]
    ELSE [threw |-> FALSE, posts |-> mapStripPostData(payload.children)]

----------------------------------------------------------------------------
(* Actions *)

Init ==
    /\ syncQueue = <<>>
    /\ isProcessingQueue = FALSE
    /\ passes = {}
    /\ nextId = 1
    /\ executions = [i \in 1..(MaxJobs + 1) |-> 0]
    /\ feeds = InitFeeds
    /\ now = StartNow
    /\ lastCall = NoCall
    /\ rateLimitState = FreshRate(StartClock)
    /\ clock = StartClock
    /\ fetcher = Idle
    /\ sent = NothingSent
    /\ subreddits = <<>>
    /\ blocked = <<>>
    /\ blockedUsers = <<>>
    /\ surfaced = {}
    /\ saveTimeout = FALSE
    /\ appState = <<>>
    /\ pendingPostsLock = "resolved"

queueSyncJob(type, subreddit) ==
    /\ IF isDuplicate(syncQueue, type, subreddit)
       THEN /\ lastCall' = Call("queueSyncJob", type, subreddit, <<>>, 0)
            /\ UNCHANGED <<syncQueue, nextId>>
       ELSE /\ nextId <= MaxJobs
            /\ syncQueue' = Append(syncQueue, Job(nextId, type, subreddit, now))
            /\ nextId' = nextId + 1
            /\ lastCall' = Call("queueSyncJob", type, subreddit, <<>>, nextId)
    /\ UNCHANGED <<isProcessingQueue, passes, executions, feeds, now>>
    /\ UNCHANGED <<rateVars, listVars, surfaced, saveVars, pendingPostsLock>>

\* the guard left out
NeverProcessing == FALSE

\* if (state.isProcessingQueue) { ...; return; }
AlreadyProcessing == isProcessingQueue

\* A trigger of processSyncQueue (a user action, the online event, startup)
\* at a moment when navigator.onLine reads onLine.
processSyncQueue(onLine) ==
    /\ UNCHANGED <<rateVars, listVars, saveVars, pendingPostsLock>>
    /\ surfaced' = IF AlreadyProcessing \/ ~ onLine THEN surfaced
                   ELSE surfaced \cup updateQueueStatus(syncQueue) \cup shownByLoop(syncQueue, now)
    /\ IF AlreadyProcessing
       THEN /\ lastCall' = Call("processSyncQueue", NULL, NULL, <<>>, "busy")
            /\ UNCHANGED <<syncQueue, isProcessingQueue, passes, feeds, nextId, executions, now>>
       ELSE IF ~ onLine
       THEN /\ lastCall' = Call("processSyncQueue", NULL, NULL, <<>>, "offline")
            /\ UNCHANGED <<syncQueue, isProcessingQueue, passes, feeds, nextId, executions, now>>
       ELSE /\ lastCall' = Call("processSyncQueue", NULL, NULL, <<>>, "started")
            /\ Resume(syncQueue, feeds, passes, executions)
            /\ UNCHANGED <<nextId, now>>

\* One request of fetchFeedWithRetry fails (timeout, network error, HTTP
\* status, unparsable body): the loop retries after its delay, or
\* executeJob returns { success: false } and the pass goes on.
FetchFails(p) ==
    /\ p \in passes
    /\ lastCall' = Call("fetchFails", NULL, NULL, <<>>, p.job)
    /\ surfaced' = IF p.attempt < p.maxRetries THEN surfaced
                   ELSE surfaced \cup shownByLoop(SetStatus(syncQueue, p.job, "failed"), now)
    /\ IF p.attempt < p.maxRetries
       THEN /\ passes' = (passes \ {p}) \cup { [p EXCEPT !.attempt = @ + 1] }
            /\ UNCHANGED <<syncQueue, isProcessingQueue, feeds, executions>>
       ELSE Resume(SetStatus(syncQueue, p.job, "failed"), feeds, passes \ {p},
                   [executions EXCEPT ![p.job] = @ + 1])
    /\ UNCHANGED <<nextId, now>>
    /\ UNCHANGED <<rateVars, listVars, saveVars, pendingPostsLock>>

JobOf(p) == syncQueue[JobById(syncQueue, p.job)]

\* A request succeeds with `posts`: executeJob stages them and returns
\* { success: true }, the job is completed and the pass goes on.
FetchSucceeds(p, posts) ==
    /\ p \in passes
    /\ LET job == JobOf(p)
           feedType == IF job.type = "fetch_subreddit" THEN "my" ELSE "popular"
           chained == chainOnLock(feeds, pendingPostsLock, posts, feedType, job.subreddit)
       IN /\ lastCall' = Call("fetchSucceeds", job.type, job.subreddit, Ids(posts), p.job)
          /\ surfaced' = surfaced \cup shownByLoop(SetStatus(syncQueue, p.job, "completed"), now)
          /\ pendingPostsLock' = chained.lock
          /\ Resume(SetStatus(syncQueue, p.job, "completed"), chained.feeds, passes \ {p},
                    [executions EXCEPT ![p.job] = @ + 1])
    /\ UNCHANGED <<nextId, now>>
    /\ UNCHANGED <<rateVars, listVars, saveVars>>

\* A request is answered with status 200 and the body `payload`.  A body that
\* makes the parsing throw lands in the catch block of fetchFeedWithRetry
\* like any failed request; otherwise executeJob stages the posts and returns
\* { success: true }.
ResponseOk(p, payload) ==
    /\ p \in passes
    /\ LET job == JobOf(p)
           feedType == IF job.type = "fetch_subreddit" THEN "my" ELSE "popular"
           body == parseBody(payload)
           chained == chainOnLock(feeds, pendingPostsLock, body.posts, feedType, job.subreddit)
       IN /\ pendingPostsLock' = IF body.threw THEN pendingPostsLock ELSE chained.lock
          /\ lastCall' = Call("responseOk", payload.kind, job.subreddit,
                              Ids(mapStripPostData(payload.children)), p.job)
          /\ surfaced' = IF ~ body.threw
                         THEN surfaced \cup shownByLoop(SetStatus(syncQueue, p.job, "completed"), now)
                         ELSE IF p.attempt < p.maxRetries THEN surfaced
                         ELSE surfaced \cup shownByLoop(SetStatus(syncQueue, p.job, "failed"), now)
          /\ IF ~ body.threw
             THEN Resume(SetStatus(syncQueue, p.job, "completed"), chained.feeds, passes \ {p},
                         [executions EXCEPT ![p.job] = @ + 1])
             ELSE IF p.attempt < p.maxRetries
             THEN /\ passes' = (passes \ {p}) \cup { [p EXCEPT !.attempt = @ + 1] }
                  /\ UNCHANGED <<syncQueue, isProcessingQueue, feeds, executions>>
             ELSE Resume(SetStatus(syncQueue, p.job, "failed"), feeds, passes \ {p},
                         [executions EXCEPT ![p.job] = @ + 1])
    /\ UNCHANGED <<nextId, now>>
    /\ UNCHANGED <<rateVars, listVars, saveVars>>

\* neither "if (pending.posts.length > 0)" of applyPendingUpdates is entered
NothingStaged(fs) == Len(fs.my.pending.posts) = 0 /\ Len(fs.popular.pending.posts) = 0

\* window.applyPendingUpdates
ApplyPendingUpdates ==
    /\ feeds' = applyPendingUpdates(feeds, now)
    /\ lastCall' = Call("applyPendingUpdates",
                        IF NothingStaged(feeds) THEN "nothingStaged" ELSE "staged",
                        NULL, <<>>, Len(feeds.my.posts) + Len(feeds.popular.posts))
    /\ UNCHANGED <<syncQueue, isProcessingQueue, passes, nextId, executions, now>>
    /\ UNCHANGED <<rateVars, listVars, surfaced, saveVars, pendingPostsLock>>

\* What r/<sub>.json lists at present: its posts in the remote order.
RECURSIVE InIdOrder(_)
InIdOrder(S) ==
    IF S = {} THEN <<>>
    ELSE LET first == CHOOSE p \in S : \A q \in S : p.id <= q.id
         IN <<first>> \o InIdOrder(S \ {first})

\* the answer to a job's request in the scheduler model: the present listing
\* of the job's source
Listings(job) ==
    { InIdOrder(ListedIn(IF job.type = "fetch_popular" THEN "popular" ELSE job.subreddit)) }

\* addPostsToPending called with a listing of r/<subreddit> for the "my" feed,
\* as executeJob calls it for a fetch_subreddit job
StageMy(subreddit, posts) ==
    LET chained == chainOnLock(feeds, pendingPostsLock, posts, "my", subreddit)
        staged == chained.feeds
    IN /\ Len(staged.my.pending.posts) <= MaxPending
       /\ feeds' = staged
       /\ pendingPostsLock' = chained.lock
       /\ lastCall' = Call("addPostsToPending", "my", subreddit, <<>>, 0)
       /\ UNCHANGED <<syncQueue, isProcessingQueue, passes, nextId, executions, now>>
       /\ UNCHANGED <<rateVars, listVars, surfaced, saveVars>>

\* addPostsToPending called with the present listing of r/popular, as
\* executeJob calls it for a fetch_popular job
StagePopular(posts) ==
    LET chained == chainOnLock(feeds, pendingPostsLock, posts, "popular", NULL)
        staged == chained.feeds
    IN /\ Len(staged.popular.pending.posts) <= MaxPending
       /\ feeds' = staged
       /\ pendingPostsLock' = chained.lock
       /\ lastCall' = Call("addPostsToPending", "popular", NULL, <<>>, 0)
       /\ UNCHANGED <<syncQueue, isProcessingQueue, passes, nextId, executions, now>>
       /\ UNCHANGED <<rateVars, listVars, surfaced, saveVars>>

\* time passes
Tick ==
    /\ now < StartNow + MaxTicks * TickStep
    /\ now' = now + TickStep
    /\ lastCall' = Call("tick", NULL, NULL, <<>>, 0)
    /\ UNCHANGED <<syncQueue, isProcessingQueue, passes, nextId, executions, feeds>>
    /\ UNCHANGED <<rateVars, listVars, surfaced, saveVars, pendingPostsLock>>

Next ==
    \/ \E k \in JobKeys : queueSyncJob(k[1], k[2])
    \/ \E onLine \in BOOLEAN : processSyncQueue(onLine)
    \/ \E p \in passes : FetchFails(p)
    \/ \E p \in passes : \E posts \in Listings(JobOf(p)) : FetchSucceeds(p, posts)
    \/ ApplyPendingUpdates

Spec == Init /\ [][Next]_vars

\* The merger alone: staging calls with every listing up to MaxFetch entries,
\* applications and the passing of time.
NextMerge ==
    \/ \E sub \in SourceKeys : \E posts \in Responses(sub, MaxFetch) : StageMy(sub, posts)
    \/ StagePopular(InIdOrder(ListedIn("popular")))
    \/ ApplyPendingUpdates
    \/ Tick

SpecMerge == Init /\ [][NextMerge]_vars

----------------------------------------------------------------------------
(* Startup: loadState on the snapshot that saveState wrote *)

\* SYNC_CONFIG.MAX_JOB_AGE_MS, in days
MAX_JOB_AGE_DAYS == 1

\* the reset of the stuck jobs with the start time cleared as well
resetStuckJobsClearingStart(q, t) ==
    LET Reset(job) == IF job.status = "processing"
                      THEN [job EXCEPT !.status = "pending", !.retries = 0, !.startTime = NoTime]
                      ELSE job
        reset == [i \in 1..Len(q) |-> Reset(q[i])]
    IN SelectSeq(reset, LAMBDA job :
           job.status # "failed_max_retries" \/ t - job.timestamp < MAX_JOB_AGE_DAYS)

\* loadState, "Clean up stuck jobs from previous session": the map that
\* resets the processing jobs and the filter on the old failed jobs
resetStuckJobs(q, t) ==
    LET Reset(job) == IF job.status = "processing"
                      THEN [job EXCEPT !.status = "pending", !.retries = 0]
                      ELSE job
        reset == [i \in 1..Len(q) |-> Reset(q[i])]
    IN SelectSeq(reset, LAMBDA job :
           job.status # "failed_max_retries" \/ t - job.timestamp < MAX_JOB_AGE_DAYS)

validateSyncQueue(q, t) ==
    LET fresh == SelectSeq(q, LAMBDA job : ~ (t - job.timestamp > MAX_JOB_AGE_DAYS))
        Reset(job) == IF job.status = "processing"
                      THEN [job EXCEPT !.status = "pending", !.retries = 0, !.startTime = NoTime]
                      ELSE job
        reset == [i \in 1..Len(fresh) |-> Reset(fresh[i])]
    IN SelectSeq(reset, LAMBDA job : job.status # "failed_max_retries")

\* loadState, "Fix rate limit state corruption"
loadRateLimitState(parsed, t) == IF t >= parsed.resetTime THEN FreshRate(t) ELSE parsed

\* a snapshot that lacks the staged posts of the followed feed
toSaveWithoutPending ==
    [cachedPosts |-> feeds.my.posts,
     popularPosts |-> feeds.popular.posts,
     bookmarkedPosts |-> feeds.starred.posts,
     subreddits |-> subreddits,
     blockedSubreddits |-> blocked,
     blockedUsers |-> blockedUsers,
     rateLimitState |-> rateLimitState,
     syncQueue |-> syncQueue,
     popularPending |-> feeds.popular.pending,
     myLastFetch |-> feeds.my.lastFetch,
     popularLastFetch |-> feeds.popular.lastFetch]

\* const toSave of saveState, without currentFeed and updateAvailable
toSave ==
    [cachedPosts |-> feeds.my.posts,
     popularPosts |-> feeds.popular.posts,
     bookmarkedPosts |-> feeds.starred.posts,
     subreddits |-> subreddits,
     blockedSubreddits |-> blocked,
     blockedUsers |-> blockedUsers,
     rateLimitState |-> rateLimitState,
     syncQueue |-> syncQueue,
     myPending |-> feeds.my.pending,
     popularPending |-> feeds.popular.pending,
     myLastFetch |-> feeds.my.lastFetch,
     popularLastFetch |-> feeds.popular.lastFetch]

\* JSON.stringify leaves out a property whose value is undefined: the text of
\* a post without id has no id
stringifyPosts(posts) ==
    [i \in 1..Len(posts) |->
        IF posts[i].id = NoId
        THEN [subreddit |-> posts[i].subreddit, created_utc |-> posts[i].created_utc]
        ELSE posts[i]]

\* JSON.parse of the text of a list of posts; the id of a post that has none
\* in the text reads undefined
parsePosts(text) ==
    [i \in 1..Len(text) |->
        Post(IF "id" \in DOMAIN text[i] THEN text[i].id ELSE NoId,
             text[i].subreddit, text[i].created_utc)]

PostLists == { "cachedPosts", "popularPosts", "bookmarkedPosts" }

Pendings == { "myPending", "popularPending" }

\* JSON.stringify(snapshot): the other values of the snapshot are strings,
\* numbers, null, and arrays and objects of these, which the text renders as
\* they are
stringify(snapshot) ==
    [k \in DOMAIN snapshot |->
        IF k \in PostLists THEN stringifyPosts(snapshot[k])
        ELSE IF k \in Pendings
        THEN [snapshot[k] EXCEPT !.posts = stringifyPosts(@)]
        ELSE snapshot[k]]

\* JSON.parse(saved)
parse(saved) ==
    [k \in DOMAIN saved |->
        IF k \in PostLists THEN parsePosts(saved[k])
        ELSE IF k \in Pendings THEN [saved[k] EXCEPT !.posts = parsePosts(@)]
        ELSE saved[k]]

\* parsed.key || default: an array or an object is never falsy
OrDefault(parsed, key, default) == IF key \in DOMAIN parsed THEN parsed[key] ELSE default

\* What loadState at day t, tick c makes of the parsed snapshot, the state
\* being the defaults of a new page.
loadParsed(parsed, t, c) ==
    LET fs == [my |-> [posts |-> OrDefault(parsed, "cachedPosts", <<>>),
                       pending |-> OrDefault(parsed, "myPending", EmptyPending),
                       lastFetch |-> OrDefault(parsed, "myLastFetch", EmptyFeed.lastFetch)],
               popular |-> [posts |-> OrDefault(parsed, "popularPosts", <<>>),
                            pending |-> OrDefault(parsed, "popularPending", EmptyPending),
                            lastFetch |-> OrDefault(parsed, "popularLastFetch",
                                                    EmptyFeed.lastFetch)],
               starred |-> [posts |-> OrDefault(parsed, "bookmarkedPosts", <<>>)]]
    IN [feeds |-> cleanupOldPostsByAge(fs, t),
        subreddits |-> OrDefault(parsed, "subreddits", <<>>),
        blocked |-> OrDefault(parsed, "blockedSubreddits", <<>>),
        blockedUsers |-> OrDefault(parsed, "blockedUsers", <<>>),
        syncQueue |-> validateSyncQueue(resetStuckJobs(OrDefault(parsed, "syncQueue", <<>>), t), t),
        rateLimitState |-> IF "rateLimitState" \in DOMAIN parsed
                           THEN loadRateLimitState(parsed.rateLimitState, c)
                           ELSE FreshRate(c)]

\* The page is closed or killed and opened again `elapsed` days and `ticks`
\* ticks later; the snapshot in localStorage is the one of the present state
\* (saveState has just run).  A new page starts with the defaults of `state`,
\* so no pass is active and nothing is being fetched, and initializeApp calls
\* loadState.
loadState(elapsed, ticks) ==
    LET t == now + elapsed
        c == clock + elapsed * TicksPerDay + ticks
        state == loadParsed(parse(stringify(toSave)), t, c)
        loaded == state.syncQueue
        Kept(id) == \E i \in 1..Len(syncQueue) : \E k \in 1..Len(loaded) :
                        /\ syncQueue[i].id = id
                        /\ loaded[k] = syncQueue[i]
    IN /\ t <= StartNow + MaxTicks * TickStep
       /\ ticks > 0 => InTime(c)
       /\ now' = t
       /\ clock' = c
       /\ syncQueue' = loaded
       /\ isProcessingQueue' = FALSE
       /\ passes' = {}
       /\ feeds' = state.feeds
       /\ rateLimitState' = state.rateLimitState
       /\ subreddits' = state.subreddits
       /\ blocked' = state.blocked
       /\ blockedUsers' = state.blockedUsers
       /\ fetcher' = Idle
       /\ sent' = NothingSent
       /\ executions' = [id \in DOMAIN executions |-> IF Kept(id) THEN executions[id] ELSE 0]
       /\ lastCall' = Call("loadState", NULL, NULL, <<>>, elapsed)
       /\ pendingPostsLock' = "resolved"
       /\ UNCHANGED <<nextId, surfaced, saveVars>>

\* the jobs of the restart model: one followed subreddit and the popular feed
LoadJobKeys == { <<"fetch_subreddit", "a">>, <<"fetch_popular", NULL>> }

\* the scheduler with restarts of the page
NextLoad ==
    \/ \E k \in LoadJobKeys : queueSyncJob(k[1], k[2])
    \/ \E onLine \in BOOLEAN : processSyncQueue(onLine)
    \/ \E p \in passes : FetchFails(p)
    \/ \E p \in passes : \E posts \in Listings(JobOf(p)) : FetchSucceeds(p, posts)
    \/ \E elapsed \in { 0, TickStep } : loadState(elapsed, 0)

SpecLoad == Init /\ [][NextLoad]_vars

\* a request that is in flight gets its answer, or fails, or is aborted by
\* the timer of REQUEST_TIMEOUT
Returns ==
    \E p \in passes :
        \/ FetchFails(p)
        \/ \E posts \in Listings(JobOf(p)) : FetchSucceeds(p, posts)

\* the scheduler alone, with the jobs of one refresh: one followed subreddit
\* and the popular feed, a job for each queued once
NextPass ==
    \/ \E k \in LoadJobKeys : queueSyncJob(k[1], k[2]) /\ nextId' <= Cardinality(LoadJobKeys) + 1
    \/ \E onLine \in BOOLEAN : processSyncQueue(onLine)
    \/ \E p \in passes : FetchFails(p)
    \/ \E p \in passes : \E posts \in Listings(JobOf(p)) : FetchSucceeds(p, posts)

\* the scheduler when every request returns; queueSyncJob adds a job MaxJobs
\* times at most
SpecFair == Init /\ [][NextPass]_vars /\ WF_vars(Returns)

\* the scheduler with the bodies of the responses
NextPayload ==
    \/ queueSyncJob("fetch_subreddit", "a")
    \/ processSyncQueue(TRUE)
    \/ \E p \in passes :
          \E payload \in Payloads(IF JobOf(p).type = "fetch_popular" THEN "popular"
                                   ELSE JobOf(p).subreddit) : ResponseOk(p, payload)
    \/ ApplyPendingUpdates

SpecPayload == Init /\ [][NextPayload]_vars

\* the scheduler with restarts of the page and applications by the user
NextAge ==
    \/ NextLoad
    \/ ApplyPendingUpdates

SpecAge == Init /\ [][NextAge]_vars

\* the requests of the fetch step under the rate limiter
NextRate ==
    \/ fetchFeedWithRetry
    \/ IntervalElapsed
    \/ WindowWaitElapsed
    \/ \E d \in Durations : \E status \in Statuses :
          \E remaining \in RemainingHeaders : \E reset \in ResetHeaders :
              Response(d, status, remaining, reset)
    \/ \E d \in Durations \cup { REQUEST_TIMEOUT } : RequestFails(d)
    \/ BackoffElapsed
    \/ rateLimitTimer
    \/ Pausing
    \/ \E ticks \in { 0, Pause } : loadState(0, ticks)

SpecRate == Init /\ [][NextRate]_vars

\* the page was opened a while before StartClock, which leaves the model the
\* time for all the executions of a job whose requests keep failing
EarlyClock == StartClock - MaxElapsed

InitRetry ==
    /\ syncQueue = <<>>
    /\ isProcessingQueue = FALSE
    /\ passes = {}
    /\ nextId = 1
    /\ executions = [i \in 1..(MaxJobs + 1) |-> 0]
    /\ feeds = InitFeeds
    /\ now = StartNow
    /\ lastCall = NoCall
    /\ rateLimitState = FreshRate(EarlyClock)
    /\ clock = EarlyClock
    /\ fetcher = Idle
    /\ sent = NothingSent
    /\ subreddits = <<>>
    /\ blocked = <<>>
    /\ blockedUsers = <<>>
    /\ surfaced = {}
    /\ saveTimeout = FALSE
    /\ appState = <<>>
    /\ pendingPostsLock = "resolved"

\* the requests of a job: answers without rate limit headers and failures
NextRetry ==
    \/ fetchFeedWithRetry
    \/ IntervalElapsed
    \/ WindowWaitElapsed
    \/ \E d \in Durations : \E status \in Statuses : Response(d, status, NULL, NULL)
    \/ \E d \in Durations : RequestFails(d)
    \/ BackoffElapsed

SpecRetry == InitRetry /\ [][NextRetry]_vars

----------------------------------------------------------------------------
(* Storage: the eviction of old posts and the starred posts *)

\* CONFIG.CLEANUP_THRESHOLD
CLEANUP_THRESHOLD == 90

\* the size of the feeds of the eviction model
MaxPosts == 6

\* the longest list of starred posts of the eviction model: a third of the posts
MaxStarred == MaxPosts \div 3

\* values of getStorageUsagePercent()
Percents == { CLEANUP_THRESHOLD - 1, CLEANUP_THRESHOLD, CLEANUP_THRESHOLD + 5 }

\* the posts of the eviction model: two posts for each day of creation
EvictPool == { Post(i, "A", 10 * ((i + 1) \div 2)) : i \in 1..MaxPosts }

\* what a feed can hold of a set of posts, all of them but two at most:
\* applyPendingUpdates leaves it sorted by created_utc, newest first
FeedsOf(S) == { sortByCreatedDesc(InIdOrder(T)) :
                    T \in { U \in SUBSET S : Cardinality(U) + 2 >= Cardinality(S) } }

\* the test that runs the cleanup at a lower occupancy
belowLowerThreshold(percent) == percent < CLEANUP_THRESHOLD - 10

\* if (percent < CONFIG.CLEANUP_THRESHOLD) return;
belowThreshold(percent) == percent < CLEANUP_THRESHOLD

\* a fifth rounded down
removeCountFloor(n) == n \div 5

\* Math.ceil(state.feeds.my.posts.length * 0.2); the double product rounds to
\* the same integer as the exact fifth for every length up to 5000 at least
removeCount(n) == (n + 4) \div 5

\* The scan of cleanupOldPosts from the tail of posts, at index i with the
\* ids `removed` collected so far.
RECURSIVE scanFromTail(_, _, _, _, _)
scanFromTail(posts, i, removed, bookmarkedIds, count) ==
    IF i >= 1 /\ Cardinality(removed) < count
    THEN scanFromTail(posts, i - 1,
                      IF posts[i].id \notin bookmarkedIds THEN removed \cup { posts[i].id }
                      ELSE removed,
                      bookmarkedIds, count)
    ELSE removed

\* the scan that takes the starred posts as well
removedIdsWithStarred(fs) ==
    scanFromTail(fs.my.posts, Len(fs.my.posts), {}, {}, removeCount(Len(fs.my.posts)))

\* the ids that cleanupOldPosts removes
removedIds(fs) ==
    scanFromTail(fs.my.posts, Len(fs.my.posts), {}, IdSet(fs.starred.posts),
                 removeCount(Len(fs.my.posts)))

cleanupOldPosts(fs, percent) ==
    IF belowThreshold(percent) THEN fs
    ELSE LET removed == removedIds(fs)
         IN [fs EXCEPT !.my.posts = SelectSeq(@, LAMBDA p : p.id \notin removed),
                       !.popular.posts = SelectSeq(@, LAMBDA p : p.id \notin removed)]

\* cleanupOldPosts runs while getStorageUsagePercent() is percent; it ends
\* with saveState unless it returns at once
CleanupOldPosts(percent) ==
    /\ feeds' = cleanupOldPosts(feeds, percent)
    /\ lastCall' = Call("cleanupOldPosts",
                        IF belowThreshold(percent) THEN "return" ELSE "saveState", NULL,
                        IF belowThreshold(percent) THEN <<>>
                        ELSE Ids(SelectSeq(feeds.my.posts, LAMBDA p : p.id \in removedIds(feeds))),
                        percent)
    /\ UNCHANGED <<syncQueue, isProcessingQueue, passes, nextId, executions, now>>
    /\ UNCHANGED <<rateVars, listVars, surfaced, saveVars, pendingPostsLock>>

\* window.toggleBookmark(postId); confirmed is the answer to the dialog that
\* asks before a star is removed
toggleBookmark(postId, confirmed) ==
    LET allPosts == feeds.my.posts \o feeds.popular.posts
        starred == feeds.starred.posts
    IN /\ \E i \in 1..Len(allPosts) : allPosts[i].id = postId
       /\ IF \E i \in 1..Len(starred) : starred[i].id = postId
          THEN /\ confirmed
               /\ feeds' = [feeds EXCEPT !.starred.posts = SelectSeq(@, LAMBDA p : p.id # postId)]
          ELSE /\ Len(starred) < MaxStarred
               /\ feeds' = [feeds EXCEPT !.starred.posts =
                                Append(@, allPosts[CHOOSE i \in 1..Len(allPosts) :
                                              /\ allPosts[i].id = postId
                                              /\ \A k \in 1..(i - 1) : allPosts[k].id # postId])]
       /\ lastCall' = Call("toggleBookmark", NULL, NULL, <<>>, postId)
       /\ UNCHANGED <<syncQueue, isProcessingQueue, passes, nextId, executions, now>>
       /\ UNCHANGED <<rateVars, listVars, surfaced, saveVars, pendingPostsLock>>

\* the eviction model starts with feeds that have been filled and applied
InitEvict ==
    /\ syncQueue = <<>>
    /\ isProcessingQueue = FALSE
    /\ passes = {}
    /\ nextId = 1
    /\ executions = [i \in 1..(MaxJobs + 1) |-> 0]
    /\ \E my \in FeedsOf(EvictPool) : \E popular \in FeedsOf({ p \in EvictPool : p.id <= 2 }) :
          feeds = [InitFeeds EXCEPT !.my.posts = my, !.popular.posts = popular]
    /\ now = StartNow
    /\ lastCall = NoCall
    /\ rateLimitState = FreshRate(StartClock)
    /\ clock = StartClock
    /\ fetcher = Idle
    /\ sent = NothingSent
    /\ subreddits = <<>>
    /\ blocked = <<>>
    /\ blockedUsers = <<>>
    /\ surfaced = {}
    /\ saveTimeout = FALSE
    /\ appState = <<>>
    /\ pendingPostsLock = "resolved"

NextEvict ==
    \/ \E percent \in Percents : CleanupOldPosts(percent)
    \/ \E postId \in 1..MaxPosts : \E confirmed \in BOOLEAN : toggleBookmark(postId, confirmed)
    \/ ApplyPendingUpdates
    \/ Tick

SpecEvict == InitEvict /\ [][NextEvict]_vars

----------------------------------------------------------------------------
(* Backup and restore: importSubreddits, and addSubreddit                   *)

\* an entry of a list of names that is not a string
NotAString == "<5>"

\* a field of the parsed document: an array, absent, or a value that is
\* neither falsy nor an array
Field(kind, items) == [kind |-> kind, items |-> items]

NoField == Field("absent", <<>>)

\* the number of lists of d that are there
Present(d) ==
    Cardinality({ f \in { "subreddits", "blocked", "blockedUsers", "starredPosts" } :
                    d[f].kind # "absent" })

\* the documents a backup file can hold, with every field the import reads
AllDocuments ==
    [ version : BOOLEAN,
      subreddits : { NoField, Field("other", <<>>), Field("array", <<"b">>),
                     Field("array", <<"A", "b">>), Field("array", <<"A", "A">>) },
      blocked : { NoField, Field("array", <<"B">>), Field("array", <<NotAString>>) },
      blockedUsers : { NoField, Field("array", <<"u", "U">>) },
      starredPosts : { NoField, Field("array", <<Post(1, "A", 10), Post(2, "A", 30)>>) } ]

\* the documents that hold at most two of the four lists
Documents == { d \in AllDocuments : Present(d) <= 2 /\ (d.version \/ Present(d) = 0) }

LowerCased(names) == { ToLowerCase(names[i]) : i \in 1..Len(names) }

\* the merge that compares the names as they are written
newNamesByExactName(local, names) ==
    SelectSeq(names, LAMBDA n : n \notin { local[i] : i \in 1..Len(local) })

\* data.subreddits.filter(sub => !normalized.includes(sub.toLowerCase()))
\* with normalized = state.subreddits.map(s => s.toLowerCase()); the same for
\* the blocked subreddits and the blocked users
newNames(local, names) ==
    SelectSeq(names, LAMBDA n : ToLowerCase(n) \notin LowerCased(local))

\* data.starredPosts.filter(p => !existingIds.has(p.id))
newStarred(local, posts) == SelectSeq(posts, LAMBDA p : p.id \notin IdSet(local))

\* Array.isArray(field) for a field that is not falsy
IsArray(field) == field.kind = "array"

\* toLowerCase is not a function: the filter throws on the first entry that
\* is not a string
Throws(field) == IsArray(field) /\ \E i \in 1..Len(field.items) : field.items[i] = NotAString

\* What the try block of importSubreddits makes of the lists st (the three
\* lists of names and the starred posts) with the document data: the lists as
\* they are when the block ends or throws, the subreddits it has added, and
\* how it ended.
importLists(st, data) ==
    IF ~ data.version /\ data.subreddits.kind = "absent"
    THEN [lists |-> st, added |-> <<>>, ended |-> "invalid"]
    ELSE IF Throws(data.subreddits)
    THEN [lists |-> st, added |-> <<>>, ended |-> "throws"]
    ELSE LET newSubs == IF IsArray(data.subreddits)
                        THEN newNames(st.subreddits, data.subreddits.items) ELSE <<>>
             s1 == [st EXCEPT !.subreddits = @ \o newSubs]
             s2 == [s1 EXCEPT !.blocked = IF IsArray(data.blocked)
                                          THEN @ \o newNames(@, data.blocked.items) ELSE @]
             s3 == [s2 EXCEPT !.blockedUsers = IF IsArray(data.blockedUsers)
                                               THEN @ \o newNames(@, data.blockedUsers.items)
                                               ELSE @]
             s4 == [s3 EXCEPT !.starred = IF IsArray(data.starredPosts)
                                          THEN @ \o newStarred(@, data.starredPosts.items)
                                          ELSE @]
         IN IF Throws(data.blocked)
            THEN [lists |-> s1, added |-> newSubs, ended |-> "throws"]
            ELSE IF Throws(data.blockedUsers)
            THEN [lists |-> s2, added |-> newSubs, ended |-> "throws"]
            ELSE [lists |-> s4, added |-> newSubs, ended |-> "imported"]

\* newSubs.forEach(sub => queueSyncJob('fetch_subreddit', sub)) on queue q,
\* the next fresh id being id
RECURSIVE queueAll(_, _, _, _)
queueAll(q, id, names, t) ==
    IF names = <<>> THEN [queue |-> q, nextId |-> id]
    ELSE IF isDuplicate(q, "fetch_subreddit", Head(names))
         THEN queueAll(q, id, Tail(names), t)
         ELSE queueAll(Append(q, Job(id, "fetch_subreddit", Head(names), t)), id + 1,
                       Tail(names), t)

\* the lists of the user and the starred posts
Lists == [subreddits |-> subreddits, blocked |-> blocked, blockedUsers |-> blockedUsers,
          starred |-> feeds.starred.posts]

\* The user picks a backup file whose content parses to data: the handler of
\* reader.onload.  After an import that went through it calls saveState and
\* processSyncQueue, navigator.onLine reading onLine.
importSubreddits(data, onLine) ==
    LET r == importLists(Lists, data)
        queued == queueAll(syncQueue, nextId, r.added, now)
        fs == [feeds EXCEPT !.starred.posts = r.lists.starred]
    IN /\ queued.nextId <= MaxJobs + 1
       /\ subreddits' = r.lists.subreddits
       /\ blocked' = r.lists.blocked
       /\ blockedUsers' = r.lists.blockedUsers
       /\ nextId' = queued.nextId
       /\ lastCall' = Call("importSubreddits", r.ended, NULL, <<>>,
                            [offered |-> Len(data.subreddits.items), added |-> Len(r.added)])
       /\ IF r.ended = "imported" /\ ~ isProcessingQueue /\ onLine
          THEN /\ Resume(queued.queue, fs, passes, executions)
               /\ surfaced' = surfaced \cup updateQueueStatus(queued.queue)
                                       \cup shownByLoop(queued.queue, now)
          ELSE /\ syncQueue' = queued.queue
               /\ feeds' = fs
               /\ UNCHANGED <<isProcessingQueue, passes, executions, surfaced>>
       /\ UNCHANGED <<now, rateVars, saveVars, pendingPostsLock>>

\* addSubreddit with sub the trimmed content of the input field
addSubreddit(sub, onLine) ==
    IF \E i \in 1..Len(subreddits) : ToLowerCase(subreddits[i]) = ToLowerCase(sub)
    THEN /\ lastCall' = Call("addSubreddit", "present", sub, <<>>, 0)
         /\ UNCHANGED <<syncVars, rateVars>>
    ELSE LET queued == queueAll(syncQueue, nextId, <<sub>>, now)
         IN /\ queued.nextId <= MaxJobs + 1
            /\ subreddits' = Append(subreddits, sub)
            /\ nextId' = queued.nextId
            /\ lastCall' = Call("addSubreddit", "added", sub, <<>>, 0)
            /\ IF ~ isProcessingQueue /\ onLine
               THEN /\ Resume(queued.queue, feeds, passes, executions)
                    /\ surfaced' = surfaced \cup updateQueueStatus(queued.queue)
                                            \cup shownByLoop(queued.queue, now)
               ELSE /\ syncQueue' = queued.queue
                    /\ UNCHANGED <<isProcessingQueue, passes, executions, feeds, surfaced>>
            /\ UNCHANGED <<now, blocked, blockedUsers, rateVars, saveVars, pendingPostsLock>>

NextImport ==
    \/ \E data \in Documents : \E onLine \in BOOLEAN : importSubreddits(data, onLine)
    \/ \E sub \in { "a", "B" } : \E onLine \in BOOLEAN : addSubreddit(sub, onLine)

SpecImport == Init /\ [][NextImport]_vars

----------------------------------------------------------------------------
(* Startup: loadState on a snapshot that saveState did not write            *)

\* the fields of the snapshot that loadState reads into the state of the model
SnapshotFields == { "cachedPosts", "popularPosts", "bookmarkedPosts", "subreddits",
                    "blockedSubreddits", "syncQueue", "rateLimitState" }

\* A field of the parsed snapshot is "valid" (what saveState writes),
\* "missing" (undefined, or null) or "malformed": a value of another type that
\* is not falsy, such as "x" or 5 where an array or an object belongs.
FieldKinds == { "valid", "missing", "malformed" }

\* what the valid fields hold
ValidSnapshot ==
    [cachedPosts |-> <<Post(2, "A", 30), Post(1, "A", 10)>>,
     popularPosts |-> <<Post(3, "B", 20)>>,
     bookmarkedPosts |-> <<Post(2, "A", 30)>>,
     subreddits |-> <<"a">>,
     blockedSubreddits |-> <<"c">>,
     syncQueue |-> <<[Job(1, "fetch_subreddit", "a", StartNow) EXCEPT !.status = "processing",
                                                                    !.retries = 1]>>,
     rateLimitState |-> [FreshRate(StartClock) EXCEPT !.remainingRequests = 1,
                                                      !.requestCount = 4]]

\* The content of localStorage.appState: nothing ("none"), a text that
\* JSON.parse rejects ("unparsable"), or the text of an object ("object")
\* with the kind of each of its fields.
Snapshots ==
    { s \in [ { "whole" } \cup SnapshotFields -> FieldKinds \cup { "none", "unparsable", "object" } ] :
        /\ s.whole \in { "none", "unparsable", "object" }
        /\ \A f \in SnapshotFields : s[f] \in FieldKinds
        /\ s.whole # "object" => \A f \in SnapshotFields : s[f] = "missing"
        /\ s.whole = "object" => Cardinality({ f \in SnapshotFields : s[f] # "valid" }) <= 2 }

\* the defaults of `state` (src/app.js:45-70) for the fields of the snapshot
DefaultOf(f, c) == IF f = "rateLimitState" THEN FreshRate(c) ELSE <<>>

\* parsed.f || default: the value of the field, and whether it is the
\* malformed value
assigned(s, f, c) ==
    IF s.whole = "object" /\ s[f] = "valid" THEN [value |-> ValidSnapshot[f], malformed |-> FALSE]
    ELSE [value |-> DefaultOf(f, c), malformed |-> s.whole = "object" /\ s[f] = "malformed"]

\* loadState on the snapshot s at day t, tick c.  Yields each field of the
\* state when loadState ends (a malformed value shows as the default, with
\* malformed |-> TRUE), whether the catch block has run, and whether an
\* exception has left loadState.
loadStateFrom(s, t, c) ==
    LET a == [f \in SnapshotFields |-> assigned(s, f, c)]
        bad(f) == a[f].malformed
        \* rebuildPopularFiltered: popular.posts.filter, and state.blocked.some
        \* for each of the posts
        rebuildThrows == bad("popularPosts")
                         \/ (a["popularPosts"].value # <<>> /\ bad("blockedSubreddits"))
        mapThrows == ~ rebuildThrows /\ bad("syncQueue")
        caught == s.whole = "unparsable" \/ (s.whole = "object" /\ (rebuildThrows \/ mapThrows))
        \* "Fix rate limit state corruption" is reached unless rebuild throws
        rate == IF s.whole # "object" \/ rebuildThrows \/ s["rateLimitState"] = "missing"
                THEN [value |-> FreshRate(c), malformed |-> FALSE]
                ELSE IF bad("rateLimitState") THEN a["rateLimitState"]
                ELSE [value |-> loadRateLimitState(a["rateLimitState"].value, c),
                      malformed |-> FALSE]
        queue1 == IF caught \/ s.whole # "object" THEN a["syncQueue"].value
                  ELSE resetStuckJobs(a["syncQueue"].value, t)
        \* validateSyncQueue: state.syncQueue.filter
        validateThrows == bad("syncQueue")
        queue2 == IF validateThrows THEN queue1 ELSE validateSyncQueue(queue1, t)
        \* cleanupOldPostsByAge: starred.posts.map, then my.posts.filter, then
        \* popular.posts.filter
        starredThrows == ~ validateThrows /\ bad("bookmarkedPosts")
        myThrows == ~ validateThrows /\ ~ starredThrows /\ bad("cachedPosts")
        popularThrows == ~ validateThrows /\ ~ starredThrows /\ ~ myThrows /\ bad("popularPosts")
        Keep(post) == ~ (t - post.created_utc > MAX_POST_AGE_DAYS
                         /\ post.id \notin IdSet(a["bookmarkedPosts"].value))
        my == IF validateThrows \/ starredThrows \/ myThrows THEN a["cachedPosts"].value
              ELSE SelectSeq(a["cachedPosts"].value, Keep)
        popular == IF validateThrows \/ starredThrows \/ myThrows \/ popularThrows
                   THEN a["popularPosts"].value
                   ELSE SelectSeq(a["popularPosts"].value, Keep)
    IN [state |-> [a EXCEPT !["cachedPosts"].value = my,
                            !["popularPosts"].value = popular,
                            !["syncQueue"].value = queue2,
                            !["rateLimitState"] = rate],
        caught |-> caught,
        throws |-> validateThrows \/ starredThrows \/ myThrows \/ popularThrows]

\* the page is opened while localStorage.appState holds the snapshot s:
\* initializeApp calls loadState on the defaults of `state`
LoadStateFrom(s) ==
    LET r == loadStateFrom(s, now, clock)
    IN /\ feeds' = [InitFeeds EXCEPT !.my.posts = r.state["cachedPosts"].value,
                                     !.popular.posts = r.state["popularPosts"].value,
                                     !.starred.posts = r.state["bookmarkedPosts"].value]
       /\ syncQueue' = r.state["syncQueue"].value
       /\ rateLimitState' = r.state["rateLimitState"].value
       /\ subreddits' = r.state["subreddits"].value
       /\ blocked' = r.state["blockedSubreddits"].value
       /\ blockedUsers' = <<>>
       /\ isProcessingQueue' = FALSE
       /\ passes' = {}
       /\ nextId' = 2
       /\ executions' = [id \in DOMAIN executions |-> 0]
       /\ fetcher' = Idle
       /\ sent' = NothingSent
       /\ lastCall' = Call("loadStateFrom", IF r.throws THEN "throws" ELSE "completes", NULL, <<>>,
                           [snapshot |-> s, caught |-> r.caught,
                            malformed |-> { f \in SnapshotFields : r.state[f].malformed }])
       /\ pendingPostsLock' = "resolved"
       /\ UNCHANGED <<now, clock, surfaced, saveVars>>

NextCorrupted ==
    \/ \E s \in Snapshots : LoadStateFrom(s)
    \/ Tick

SpecCorrupted == Init /\ [][NextCorrupted]_vars

----------------------------------------------------------------------------
(* saveState when localStorage is full                                      *)

\* the nested calls of saveState that the call stack holds
MaxStack == 8

\* What the snapshot toSave of the feeds fs takes in localStorage, counted in
\* posts: the other fields of toSave do not change while saveState runs.
snapshotSize(fs) ==
    Len(fs.my.posts) + Len(fs.popular.posts) + Len(fs.starred.posts)
    + Len(fs.my.pending.posts) + Len(fs.popular.pending.posts)

\* localStorage.setItem('appState', JSON.stringify(toSave)) does not throw
\* QuotaExceededError: capacity is what the origin can still store under the key
setItemSucceeds(snapshot, capacity) == snapshotSize(snapshot) <= capacity

\* What the retry in the catch block writes: toSave, the object built before
\* the first write, whose fields are the arrays that the state held then
\* (cleanupOldPosts assigns new arrays to the state).
retrySnapshot(snapshot, current) == snapshot

NoSnapshot == <<>>

SaveResult(fs, result, writes, evictions, stored) ==
    [feeds |-> fs, result |-> result, writes |-> writes, evictions |-> evictions,
     stored |-> stored]

\* One call of saveState on the feeds fs, depth calls of saveState being on
\* the stack already, while the origin can store capacity and
\* getStorageUsagePercent() reads percent (no failed write changes either).
\* Yields the feeds when the call ends, its result ("overflow" when the stack
\* is exhausted), the calls of setItem and the cleanups that evicted, and the
\* snapshot stored last.
RECURSIVE saveStateAt(_, _, _, _)
saveStateAt(fs, capacity, percent, depth) ==
    IF depth >= MaxStack THEN SaveResult(fs, "overflow", 0, 0, NoSnapshot)
    ELSE IF setItemSucceeds(fs, capacity) THEN SaveResult(fs, "true", 1, 0, <<fs>>)
    ELSE IF belowThreshold(percent)
    THEN IF setItemSucceeds(retrySnapshot(fs, fs), capacity)
         THEN SaveResult(fs, "true", 2, 0, <<retrySnapshot(fs, fs)>>)
         ELSE SaveResult(fs, "false", 2, 0, NoSnapshot)
    ELSE LET inner == saveStateAt(cleanupOldPosts(fs, percent), capacity, percent, depth + 1)
             again == retrySnapshot(fs, inner.feeds)
         IN IF inner.result = "overflow"
            THEN SaveResult(inner.feeds, "overflow", 1 + inner.writes, 1 + inner.evictions,
                            inner.stored)
            ELSE IF setItemSucceeds(again, capacity)
            THEN SaveResult(inner.feeds, "true", 2 + inner.writes, 1 + inner.evictions,
                            <<again>>)
            ELSE SaveResult(inner.feeds, "false", 2 + inner.writes, 1 + inner.evictions,
                            inner.stored)

\* what the origin can store
Capacities == { 0, MaxPosts \div 2, MaxPosts - 1 }

\* A handler calls saveState().  When the stack is exhausted the RangeError is
\* raised either inside a try block of saveState, whose catch returns false,
\* or outside one (in cleanupOldPosts, or in the catch block), and then it
\* leaves saveState: caught says which.
SaveState(capacity, percent, caught) ==
    LET r == saveStateAt(feeds, capacity, percent, 0)
        result == IF r.result # "overflow" THEN r.result
                  ELSE IF caught THEN "false" ELSE "throws"
    IN /\ caught \/ r.result = "overflow"
       /\ feeds' = r.feeds
       /\ lastCall' = Call("saveState", result, NULL, <<r.writes, r.evictions>>,
                           [capacity |-> capacity, percent |-> percent,
                            storedCurrent |-> r.stored = <<r.feeds>>,
                            overflow |-> r.result = "overflow"])
       /\ UNCHANGED <<syncQueue, isProcessingQueue, passes, nextId, executions, now>>
       /\ UNCHANGED <<rateVars, listVars, surfaced, saveVars, pendingPostsLock>>

NextSave ==
    \/ \E capacity \in Capacities : \E percent \in Percents : \E caught \in BOOLEAN :
          SaveState(capacity, percent, caught)
    \/ \E postId \in 1..MaxPosts : \E confirmed \in BOOLEAN : toggleBookmark(postId, confirmed)

\* the feeds hold every post of the pool
InitSave ==
    /\ InitEvict
    /\ Len(feeds.my.posts) = MaxPosts
    /\ Len(feeds.popular.posts) = 2

SpecSave == InitSave /\ [][NextSave]_vars

----------------------------------------------------------------------------
(* debouncedSave, its timer, and the end of the page                        *)

\* refreshPosts while navigator.onLine is false: a job for each followed
\* subreddit and one for the popular feed, each queueSyncJob that adds a job
\* calling debouncedSave, and no pass
refreshPostsOffline ==
    LET subs == queueAll(syncQueue, nextId, subreddits, now)
        popular == IF isDuplicate(subs.queue, "fetch_popular", NULL) THEN subs
                   ELSE [queue |-> Append(subs.queue, Job(subs.nextId, "fetch_popular", NULL, now)),
                         nextId |-> subs.nextId + 1]
    IN /\ popular.nextId <= MaxJobs + 1
       /\ syncQueue' = popular.queue
       /\ nextId' = popular.nextId
       /\ saveTimeout' = (saveTimeout \/ popular.nextId # nextId)
       /\ lastCall' = Call("refreshPosts", "offline", NULL, <<>>, popular.nextId - nextId)
       /\ UNCHANGED <<isProcessingQueue, passes, executions, feeds, now, appState>>
       /\ UNCHANGED <<rateVars, listVars, surfaced, pendingPostsLock>>

\* addSubreddit while navigator.onLine is false: the subreddit is pushed and
\* saved at once by saveState, the job is queued under debouncedSave, and
\* processSyncQueue returns
addSubredditOffline(sub) ==
    /\ ~ \E i \in 1..Len(subreddits) : ToLowerCase(subreddits[i]) = ToLowerCase(sub)
    /\ LET queued == queueAll(syncQueue, nextId, <<sub>>, now)
       IN /\ queued.nextId <= MaxJobs + 1
          /\ subreddits' = Append(subreddits, sub)
          /\ appState' = <<stringify([toSave EXCEPT !.subreddits = Append(subreddits, sub)])>>
          /\ syncQueue' = queued.queue
          /\ nextId' = queued.nextId
          /\ saveTimeout' = (saveTimeout \/ queued.nextId # nextId)
          /\ lastCall' = Call("addSubreddit", "offline", sub, <<>>, 0)
    /\ UNCHANGED <<isProcessingQueue, passes, executions, feeds, now, blocked, blockedUsers>>
    /\ UNCHANGED <<rateVars, surfaced, pendingPostsLock>>

\* the timer of debouncedSave fires, 500 ms after the last call of
\* debouncedSave: saveState(); saveTimeout = null
saveTimer ==
    /\ saveTimeout
    /\ appState' = <<stringify(toSave)>>
    /\ saveTimeout' = FALSE
    /\ lastCall' = Call("saveTimer", NULL, NULL, <<>>, 0)
    /\ UNCHANGED <<syncQueue, isProcessingQueue, passes, nextId, executions, feeds, now>>
    /\ UNCHANGED <<rateVars, listVars, surfaced, pendingPostsLock>>

\* The page is closed, the listeners of beforeunload clear the intervals and
\* the toasts, the timers of the page are gone with it; the page is opened
\* again and loadState reads localStorage.appState.
unload ==
    LET loaded == IF appState = <<>> THEN loadParsed(<<>>, now, clock)
                  ELSE loadParsed(parse(appState[1]), now, clock)
        cleaned == IF appState = <<>> THEN FALSE
                   ELSE Len(loaded.syncQueue)
                        # Len(resetStuckJobs(parse(appState[1]).syncQueue, now))
    IN /\ syncQueue' = loaded.syncQueue
       /\ feeds' = loaded.feeds
       /\ rateLimitState' = loaded.rateLimitState
       /\ subreddits' = loaded.subreddits
       /\ blocked' = loaded.blocked
       /\ blockedUsers' = loaded.blockedUsers
       /\ isProcessingQueue' = FALSE
       /\ passes' = {}
       /\ executions' = [id \in DOMAIN executions |-> 0]
       /\ fetcher' = Idle
       /\ sent' = NothingSent
       /\ pendingPostsLock' = "resolved"
       /\ saveTimeout' = cleaned
       /\ lastCall' = Call("unload", IF saveTimeout THEN "timerPending" ELSE "idle", NULL, <<>>, 0)
       /\ UNCHANGED <<nextId, now, clock, surfaced, appState>>

NextDebounce ==
    \/ refreshPostsOffline
    \/ \E sub \in SourceKeys : addSubredditOffline(sub)
    \/ saveTimer
    \/ unload

SpecDebounce == Init /\ [][NextDebounce]_vars

----------------------------------------------------------------------------
(* Unfollowing a subreddit                                                  *)

Followed(sub) == \E i \in 1..Len(subreddits) : ToLowerCase(subreddits[i]) = ToLowerCase(sub)

\* the posts of another subreddit than sub, as the filters of removeSubreddit
\* and toggleFollowSubreddit keep them
notOf(posts, sub) == SelectSeq(posts, LAMBDA p : ToLowerCase(p.subreddit) # ToLowerCase(sub))

\* removeSubreddit(sub) once confirmed, and toggleFollowSubreddit on a
\* subreddit that is followed; the queue and the job that is being run are
\* left as they are; updateAllViews saves the state
removeSubreddit(sub) ==
    /\ Followed(sub)
    /\ subreddits' = SelectSeq(subreddits, LAMBDA s : ToLowerCase(s) # ToLowerCase(sub))
    /\ feeds' = [feeds EXCEPT !.my.posts = notOf(@, sub),
                              !.my.pending = [posts |-> notOf(@.posts, sub),
                                              count |-> Len(notOf(@.posts, sub))]]
    /\ lastCall' = Call("removeSubreddit", NULL, sub, <<>>, 0)
    /\ UNCHANGED <<syncQueue, isProcessingQueue, passes, nextId, executions, now, blocked, blockedUsers>>
    /\ UNCHANGED <<rateVars, surfaced, saveVars, pendingPostsLock>>

\* The scheduler with one subreddit that the user follows and unfollows, the
\* popular feed, the applications, the two evictions and restarts.
\* the jobs of the model: one for each key, and one more for the subreddit
\* that is followed again
UnfollowJobs == Cardinality(LoadJobKeys) + 1

NextUnfollow ==
    \/ \E onLine \in BOOLEAN : addSubreddit("a", onLine) /\ nextId' <= UnfollowJobs + 1
    \/ removeSubreddit("a")
    \/ queueSyncJob("fetch_popular", NULL) /\ nextId' <= UnfollowJobs + 1
    \/ processSyncQueue(TRUE)
    \/ \E p \in passes : \E posts \in Listings(JobOf(p)) : FetchSucceeds(p, posts)
    \/ ApplyPendingUpdates
    \/ CleanupOldPosts(CLEANUP_THRESHOLD)
    \/ Tick
    \/ loadState(0, 0)

SpecUnfollow == Init /\ [][NextUnfollow]_vars

----------------------------------------------------------------------------
(* A staging callback that throws                                           *)

\* an entry of a listing whose data has no subreddit field: stripPostData
\* copies the undefined
NamelessPost == Post(MaxPosts, NULL, 20)

\* what the request of a job returns: the listing, or, for a subreddit, a
\* listing whose only entry has no subreddit
LockListings(job) ==
    Listings(job) \cup (IF job.type = "fetch_subreddit" THEN { <<NamelessPost>> } ELSE {})

\* the scheduler with requests that succeed
NextLock ==
    \/ \E k \in LoadJobKeys : queueSyncJob(k[1], k[2])
    \/ processSyncQueue(TRUE)
    \/ \E p \in passes : \E posts \in LockListings(JobOf(p)) : FetchSucceeds(p, posts)
    \/ ApplyPendingUpdates

SpecLock == Init /\ [][NextLock]_vars

----------------------------------------------------------------------------
(* Properties *)

Active(q) == { i \in 1..Len(q) : ~ Terminal(q[i].status) }

SameKey(j1, j2) == j1.type = j2.type /\ j1.subreddit = j2.subreddit

\* C1: in every reachable state no two jobs whose status is neither completed
\* nor failed_max_retries have the same (type, subreddit) pair.
C1_NoEquivalentActiveJobs ==
    \A i, j \in Active(syncQueue) : SameKey(syncQueue[i], syncQueue[j]) => i = j

\* A job was enqueued behind a finished job of the same type and subreddit
\* while another job of the same type was active.
C1_Witness ==
    \E i, j, k \in 1..Len(syncQueue) :
        /\ i < j
        /\ SameKey(syncQueue[i], syncQueue[j])
        /\ Terminal(syncQueue[i].status)
        /\ syncQueue[j].status = "pending"
        /\ ~ Terminal(syncQueue[k].status)
        /\ syncQueue[k].type = syncQueue[j].type
        /\ syncQueue[k].subreddit # syncQueue[j].subreddit

\* C2: queueSyncJob(type, subreddit) returns null and leaves the queue as it is
\* exactly when the queue holds a job of that type and subreddit whose status
\* is neither completed nor failed_max_retries; otherwise it appends one job
\* with status pending and retries 0 at the tail and changes no other job.
C2_EnqueueEffect ==
    [][ lastCall'.op = "queueSyncJob" =>
          LET type == lastCall'.type
              subreddit == lastCall'.subreddit
              refused == \E i \in Active(syncQueue) :
                             /\ syncQueue[i].type = type
                             /\ syncQueue[i].subreddit = subreddit
          IN /\ (lastCall'.ret = 0) <=> refused
             /\ refused => syncQueue' = syncQueue
             /\ ~ refused =>
                  /\ Len(syncQueue') = Len(syncQueue) + 1
                  /\ SubSeq(syncQueue', 1, Len(syncQueue)) = syncQueue
                  /\ syncQueue'[Len(syncQueue')].type = type
                  /\ syncQueue'[Len(syncQueue')].subreddit = subreddit
                  /\ syncQueue'[Len(syncQueue')].status = "pending"
                  /\ syncQueue'[Len(syncQueue')].retries = 0
                  /\ syncQueue'[Len(syncQueue')].id = lastCall'.ret
    ]_vars

\* queueSyncJob has just returned null for a job that is being processed,
\* with a finished job of another key still in the queue.
C2_Witness ==
    /\ lastCall.op = "queueSyncJob"
    /\ lastCall.ret = 0
    /\ \E i \in 1..Len(syncQueue) :
          /\ syncQueue[i].type = lastCall.type
          /\ syncQueue[i].subreddit = lastCall.subreddit
          /\ syncQueue[i].status = "processing"
    /\ \E i \in 1..Len(syncQueue) : Terminal(syncQueue[i].status)

NoDuplicateId(posts) ==
    \A i, j \in 1..Len(posts) : posts[i].id = posts[j].id => i = j

\* C3: in every reachable state no id appears twice in a feed's applied
\* sequence (posts) nor twice in its staging sequence (pending.posts); a
\* listing that holds the same id twice is staged once.
C3_UniqueIds ==
    \A f \in FeedTypes :
        /\ NoDuplicateId(feeds[f].posts)
        /\ NoDuplicateId(feeds[f].pending.posts)

\* the part of C3 about the applied sequence
C3_UniqueApplied ==
    \A f \in FeedTypes : NoDuplicateId(feeds[f].posts)

\* C4: staging is idempotent: from every reachable feed state and for every
\* listing, staging the listing a second time right after the first adds
\* nothing and leaves the staging sequence as the first call left it.
C4_StageIdempotent ==
    /\ \A sub \in SourceKeys : \A posts \in Responses(sub, MaxFetch) :
          LET once == addPostsToPending(feeds, posts, "my", sub)
          IN addPostsToPending(once, posts, "my", sub) = once
    /\ \A posts \in Responses("popular", MaxFetch) :
          LET once == addPostsToPending(feeds, posts, "popular", NULL)
          IN addPostsToPending(once, posts, "popular", NULL) = once

\* what C5 says a staging call leaves in the feed: the staged posts followed
\* by the fetched posts whose id is in neither sequence of the feed
StagedPlusUnknown(feed, posts) ==
    LET known == IdSet(feed.posts) \cup IdSet(feed.pending.posts)
    IN feed.pending.posts \o SelectSeq(posts, LAMBDA p : p.id \notin known)

\* C5: from every reachable feed state a staging call appends to the staging
\* sequence exactly the fetched posts whose id is in neither the applied nor
\* the staging sequence of the feed, in fetch order, and leaves the applied
\* sequence as it is.
C5_StageAppendsUnknown ==
    /\ \A sub \in SourceKeys : \A posts \in Responses(sub, MaxFetch) :
          LET after == addPostsToPending(feeds, posts, "my", sub)
          IN /\ after.my.pending.posts = StagedPlusUnknown(feeds.my, posts)
             /\ after.my.posts = feeds.my.posts
    /\ \A posts \in Responses("popular", MaxFetch) :
          LET after == addPostsToPending(feeds, posts, "popular", NULL)
          IN /\ after.popular.pending.posts = StagedPlusUnknown(feeds.popular, posts)
             /\ after.popular.posts = feeds.popular.posts

SortedByCreatedDesc(posts) ==
    \A i, j \in 1..Len(posts) : i < j => posts[i].created_utc >= posts[j].created_utc

FirstIndex(posts, id) == CHOOSE i \in 1..Len(posts) :
    posts[i].id = id /\ \A k \in 1..(i - 1) : posts[k].id # id

\* posts of the same age stand in `posts` in the order of their first
\* occurrences in `before`
TiesInOrderOf(posts, before) ==
    \A i, j \in 1..Len(posts) :
        (i < j /\ posts[i].created_utc = posts[j].created_utc) =>
            /\ posts[i].id \in IdSet(before)
            /\ posts[j].id \in IdSet(before)
            /\ FirstIndex(before, posts[i].id) < FirstIndex(before, posts[j].id)

\* C6: after applyPendingUpdates, for every feed: the applied sequence is in
\* descending order of created_utc, posts of equal created_utc keep their
\* relative order from (staged followed by applied), no id occurs twice, and
\* the staging sequence is empty.
C6_ApplyEffect ==
    [][ lastCall'.op = "applyPendingUpdates" =>
          \A f \in FeedTypes :
              /\ SortedByCreatedDesc(feeds'[f].posts)
              /\ TiesInOrderOf(feeds'[f].posts, feeds[f].pending.posts \o feeds[f].posts)
              /\ NoDuplicateId(feeds'[f].posts)
              /\ feeds'[f].pending = EmptyPending
    ]_vars

\* An apply has merged a staged post with applied ones: posts 4 and 3, of the
\* same age, stand in that order before the older post 1.
C6_Witness ==
    /\ lastCall.op = "applyPendingUpdates"
    /\ \E i \in 1..Len(feeds.my.posts) :
          /\ i + 2 <= Len(feeds.my.posts)
          /\ feeds.my.posts[i].id = 4
          /\ feeds.my.posts[i + 1].id = 3
          /\ feeds.my.posts[i + 2].id = 1
    /\ Len(feeds.popular.posts) > 0

\* The step that ends the scenario of C7: nothing is applied or staged, the
\* queue holds one job, a fetch for source "a" that is being processed, and
\* its request is answered with the posts 1, 2, 3.
FirstFetchOfA ==
    /\ feeds = InitFeeds
    /\ Len(syncQueue) = 1
    /\ syncQueue[1].type = "fetch_subreddit"
    /\ syncQueue[1].subreddit = "a"
    /\ syncQueue[1].status = "processing"
    /\ syncQueue'= <<>>
    /\ lastCall'.op = "fetchSucceeds"
    /\ lastCall'.posts = <<1, 2, 3>>

PassEnds ==
    \/ isProcessingQueue /\ ~ isProcessingQueue'
    \/ /\ ~ isProcessingQueue /\ ~ isProcessingQueue'
       /\ lastCall'.op = "processSyncQueue"
       /\ lastCall'.ret = "started"

\* C8: when a pass ends, no feed is left with an empty applied sequence and a
\* non-empty staging sequence, each feed being judged by itself.
C8_AutoApplyPerFeed ==
    [][ PassEnds =>
          \A f \in FeedTypes :
              ~ (Len(feeds'[f].posts) = 0 /\ Len(feeds'[f].pending.posts) > 0)
    ]_vars

\* A pass has ended that staged posts for both feeds: the popular feed, which
\* was empty, has been applied, the "my" feed, which was not, keeps its staged
\* posts.
C8_Witness ==
    /\ ~ isProcessingQueue
    /\ lastCall.op = "fetchSucceeds"
    /\ lastCall.type = "fetch_popular"
    /\ Len(feeds.popular.posts) > 0
    /\ Len(feeds.popular.pending.posts) = 0
    /\ Len(feeds.my.posts) > 0
    /\ Len(feeds.my.pending.posts) > 0

\* C9: a job is executed at most MAX_RETRIES times and its retries counter
\* never exceeds MAX_RETRIES; a job marked failed_max_retries has been executed
\* exactly MAX_RETRIES times, no execution being started by the attempt that
\* marks it; and no such job is in the queue once the pass has ended.
C9_RetryBound ==
    \A i \in 1..Len(syncQueue) :
        LET job == syncQueue[i]
        IN /\ job.retries <= MAX_RETRIES
           /\ executions[job.id] <= MAX_RETRIES
           /\ job.status = "failed_max_retries" =>
                 /\ job.retries = MAX_RETRIES
                 /\ executions[job.id] = MAX_RETRIES
           /\ job.status = "processing" => executions[job.id] = job.retries - 1
           /\ ~ isProcessingQueue => job.status # "failed_max_retries"

\* A job has failed MAX_RETRIES times and is marked failed_max_retries while
\* the pass goes on with another job.
C9_Witness ==
    \E i, j \in 1..Len(syncQueue) :
        /\ syncQueue[i].status = "failed_max_retries"
        /\ executions[syncQueue[i].id] = MAX_RETRIES
        /\ syncQueue[j].status = "processing"
        /\ lastCall.op = "fetchFails"

Processing(q) == { i \in 1..Len(q) : q[i].status = "processing" }

\* C10: at most one pass is active and at most one job is processing at any
\* time, and a call of processSyncQueue made while a pass is active changes
\* neither a job nor a feed nor the pass.
C10_SinglePass ==
    /\ [](/\ Cardinality(passes) <= 1
          /\ Cardinality(Processing(syncQueue)) <= 1
          /\ isProcessingQueue <=> passes # {})
    /\ [][ (lastCall'.op = "processSyncQueue" /\ passes # {}) =>
             /\ lastCall'.ret = "busy"
             /\ UNCHANGED <<syncQueue, passes, isProcessingQueue, feeds, executions>>
       ]_vars

\* processSyncQueue has just returned at once: a pass is suspended in the
\* fetch of one job and another job is waiting.
C10_Witness ==
    /\ lastCall.op = "processSyncQueue"
    /\ lastCall.ret = "busy"
    /\ Cardinality(passes) = 1
    /\ Cardinality(Processing(syncQueue)) = 1
    /\ \E i \in 1..Len(syncQueue) : syncQueue[i].status = "pending"

\* C11: jobs are taken in insertion order: a job that the scheduler has made
\* processing or failed_max_retries is preceded in the queue by no job that is
\* pending or failed, in every state and at every step that takes a job.
C11_Fifo ==
    /\ [](\A i \in 1..Len(syncQueue) :
             syncQueue[i].status \in { "processing", "failed_max_retries" } =>
                 \A k \in 1..(i - 1) : ~ Runnable(syncQueue[k]))
    /\ [][ \A i \in 1..Len(syncQueue') :
             ( /\ syncQueue'[i].status \in { "processing", "failed_max_retries" }
               /\ \E j \in 1..Len(syncQueue) :
                     /\ syncQueue[j].id = syncQueue'[i].id
                     /\ syncQueue[j] # syncQueue'[i] ) =>
                 \A k \in 1..(i - 1) : ~ Runnable(syncQueue'[k])
       ]_vars

\* The second job of three is being processed after the first one has used up
\* its retries, and the third one waits.
C11_Witness ==
    /\ Len(syncQueue) = 3
    /\ syncQueue[1].status = "failed_max_retries"
    /\ syncQueue[2].status = "processing"
    /\ syncQueue[3].status = "pending"

\* the job of queue q that has the id of job
SameJob(q, job) == q[CHOOSE k \in 1..Len(q) : q[k].id = job.id]

Survives(q, job) == \E k \in 1..Len(q) : q[k].id = job.id

\* C12: after loadState no job is processing: every job of the snapshot that
\* was processing and is still in the queue is pending with retries 0 and a
\* null start time, and every other job still in the queue has the status and
\* the retries it had.
C12_CrashRecovery ==
    [][ lastCall'.op = "loadState" =>
          /\ \A k \in 1..Len(syncQueue') : syncQueue'[k].status # "processing"
          /\ \A i \in 1..Len(syncQueue) :
                Survives(syncQueue', syncQueue[i]) =>
                    LET old == syncQueue[i]
                        new == SameJob(syncQueue', old)
                    IN IF old.status = "processing"
                       THEN /\ new.status = "pending"
                            /\ new.retries = 0
                            /\ new.startTime = NoTime
                       ELSE /\ new.status = old.status
                            /\ new.retries = old.retries
    ]_vars

\* What loadState does establish: no job is processing, the jobs that were
\* are pending with retries 0, the other ones are as they were or removed,
\* and no pass is active.
C12_ResetWithoutStartTime ==
    [][ lastCall'.op = "loadState" =>
          /\ \A k \in 1..Len(syncQueue') : syncQueue'[k].status # "processing"
          /\ ~ isProcessingQueue'
          /\ \A i \in 1..Len(syncQueue) :
                Survives(syncQueue', syncQueue[i]) =>
                    LET old == syncQueue[i]
                        new == SameJob(syncQueue', old)
                    IN IF old.status = "processing"
                       THEN new = [old EXCEPT !.status = "pending", !.retries = 0]
                       ELSE new = old
    ]_vars

\* a step in which a request goes out
SendStep == fetcher'.pc = "inflight" /\ fetcher' # fetcher

\* C13: with no correction by the server, a request that is let through goes
\* out at least REQUEST_INTERVAL after the request let through before it,
\* whatever became of that one.
C13_MinInterval ==
    [][ (SendStep /\ sent.last # NoTime /\ ~ sent'.observed) =>
            sent'.last - sent.last >= REQUEST_INTERVAL
    ]_vars

\* C14: with no correction by the server, no more than REQUESTS_PER_MINUTE
\* requests are let through in one window of the limiter.
C14_WindowBudget ==
    ~ sent.observed => sent.inWindow <= REQUESTS_PER_MINUTE

\* What the gate does establish: a request goes out only when remaining is
\* positive in a window that has not expired, the window being reset first when
\* it has.
C14_GateOnly ==
    [][ (SendStep /\ lastCall'.op # "intervalElapsed") =>
            LET before == IF lastCall'.op = "response"
                          THEN account(rateLimitState, clock', lastCall'.type, lastCall'.subreddit)
                          ELSE rateLimitState
            IN /\ rateLimitState' = resetWindow(before, clock')
               /\ rateLimitState'.remainingRequests > 0
               /\ clock' < rateLimitState'.resetTime
    ]_vars

\* C15: the remaining count of the limiter is never negative.
C15_RemainingNonNegative ==
    rateLimitState.remainingRequests >= 0

\* What holds of the remaining count when the server sends no
\* X-Ratelimit-Remaining header: it stays between 0 and the budget.
C15_LocalNonNegative ==
    [][ (rateLimitState.remainingRequests >= 0 /\ ~ (lastCall'.op = "response" /\ lastCall'.type # NULL)) =>
            rateLimitState'.remainingRequests >= 0
    ]_vars

\* C16: when a request that was let through ends, by a response, a network
\* error or the timeout, lastRequestTime is the time of that moment and, unless
\* the server has sent a count or a new window has begun in the same step,
\* remaining is one less than before, 0 at least.
C16_EveryRequestReserved ==
    [][ lastCall'.op \in { "response", "requestFails" } =>
            /\ rateLimitState'.lastRequestTime = clock'
            /\ (lastCall'.type = NULL /\ rateLimitState'.resetTime = rateLimitState.resetTime) =>
                   rateLimitState'.remainingRequests = Max(0, rateLimitState.remainingRequests - 1)
    ]_vars

\* C17: after a response, remaining is the value of X-Ratelimit-Remaining when
\* the server sends it and the local count less one (0 at least) when it does
\* not, and resetTime is the value of X-Ratelimit-Reset converted from seconds
\* when the server sends it and unchanged when it does not; when the same step
\* goes on to the gate of the next execution and finds that window over, the
\* gate has reset the window.
C17_ServerWins ==
    [][ lastCall'.op = "response" =>
            LET remaining == lastCall'.type
                reset == lastCall'.subreddit
                expRemaining == IF remaining # NULL THEN parseInt(remaining)
                                ELSE Max(0, rateLimitState.remainingRequests - 1)
                expReset == IF reset # NULL THEN parseInt(reset) * TicksPerSecond
                            ELSE rateLimitState.resetTime
                gated == fetcher'.pc \notin { "idle", "backoff" }
            IN IF gated /\ clock' >= expReset
               THEN /\ rateLimitState'.remainingRequests = REQUESTS_PER_MINUTE
                    /\ rateLimitState'.resetTime = clock' + RATE_LIMIT_RESET_INTERVAL
               ELSE /\ rateLimitState'.remainingRequests = expRemaining
                    /\ rateLimitState'.resetTime = expReset
    ]_vars

\* A response has carried both headers, with a count that is not the local
\* one, after an earlier response without headers had been counted locally.
C17_Witness ==
    /\ lastCall.op = "response"
    /\ lastCall.type = "3.0"
    /\ lastCall.subreddit = "15"
    /\ rateLimitState.remainingRequests = 3
    /\ rateLimitState.resetTime = 15 * TicksPerSecond
    /\ rateLimitState.requestCount = 2
    /\ fetcher.pc = "idle"


\* whether the post at index i of the feed f of fs is starred
Pinned(fs, f, i) == fs[f].posts[i].id \in IdSet(fs.starred.posts)

\* C18: neither the eviction by age (run by applyPendingUpdates) nor the
\* eviction at the occupancy threshold removes a post whose id is among the
\* starred posts: such a post of a feed is still in the feed afterwards, and
\* the starred posts themselves are left alone.
C18_PinnedNeverEvicted ==
    [][ lastCall'.op \in { "cleanupOldPosts", "applyPendingUpdates" }
        => /\ \A f \in { "my", "popular" } : \A i \in 1..Len(feeds[f].posts) :
                 Pinned(feeds, f, i)
                    => \E k \in 1..Len(feeds'[f].posts) : feeds'[f].posts[k] = feeds[f].posts[i]
           /\ feeds'.starred = feeds.starred ]_vars

\* C18 happens: the cleanup at the threshold has removed posts and the oldest
\* post left, at the tail of the feed and older than the age limit, is starred.
C18_Witness ==
    /\ lastCall.op = "cleanupOldPosts"
    /\ lastCall.posts # <<>>
    /\ feeds.my.posts # <<>>
    /\ Pinned(feeds, "my", Len(feeds.my.posts))
    /\ now - feeds.my.posts[Len(feeds.my.posts)].created_utc > MAX_POST_AGE_DAYS
    /\ \A i \in 1..Len(lastCall.posts) :
          \E p \in EvictPool : /\ p.id = lastCall.posts[i]
                               /\ p.created_utc >= feeds.my.posts[Len(feeds.my.posts)].created_utc

\* C19: below the threshold the cleanup changes nothing and writes nothing:
\* the feeds are as before and it returns before saveState.
C19_NoOpBelowThreshold ==
    [][ (lastCall'.op = "cleanupOldPosts" /\ lastCall'.ret < CLEANUP_THRESHOLD)
        => /\ feeds' = feeds
           /\ lastCall'.type = "return"
           /\ lastCall'.posts = <<>> ]_vars

\* C19 happens: the cleanup ran just below the threshold on a feed with posts
\* that are not starred.
C19_Witness ==
    /\ lastCall.op = "cleanupOldPosts"
    /\ lastCall.ret = CLEANUP_THRESHOLD - 1
    /\ Len(feeds.my.posts) >= 5
    /\ \E i \in 1..Len(feeds.my.posts) : ~Pinned(feeds, "my", i)
    /\ feeds.popular.posts # <<>>

\* the indexes of the posts of the feed f of fs that are not starred
NonPinned(fs, f) == { i \in 1..Len(fs[f].posts) : ~Pinned(fs, f, i) }

\* a fifth of n rounded up: the least c with 5 * c >= n
FifthUp(n) == CHOOSE c \in 0..n : 5 * c >= n /\ \A d \in 0..n : 5 * d >= n => c <= d

NoneTooOld(fs, t) ==
    \A f \in FeedTypes : \A i \in 1..Len(fs[f].posts) :
        t - fs[f].posts[i].created_utc > MAX_POST_AGE_DAYS => Pinned(fs, f, i)

\* the pass has ended in this step and has applied the staged posts of a feed
\* that was empty
AutoApplied ==
    /\ lastCall'.op \in { "processSyncQueue", "fetchFails", "fetchSucceeds" }
    /\ \E f \in FeedTypes : feeds[f].posts = <<>> /\ feeds'[f].posts # <<>>

\* C21: right after loadState, after applyPendingUpdates and after the
\* automatic application at the end of a pass, no feed holds an applied post
\* that is older than the age limit and not starred.
C21_AgeEvictionAfterLoadAndApply ==
    [][ (lastCall'.op \in { "loadState", "applyPendingUpdates" } \/ AutoApplied)
        => NoneTooOld(feeds', now') ]_vars

\* C21 without the automatic application: loadState and applyPendingUpdates
\* both end with cleanupOldPostsByAge.
C21_AfterLoadAndUserApply ==
    [][ lastCall'.op \in { "loadState", "applyPendingUpdates" }
        => NoneTooOld(feeds', now') ]_vars


\* C28: a response with status 429 ends the execution of the job in the
\* fetch step: fetchFeedWithRetry returns (no call is active any more, or the
\* scheduler has taken the job again and started its next execution) and does
\* not wait for a further attempt of its own.
C28_NoRetryInsideFetchAfter429 ==
    [][ (lastCall'.op = "response" /\ lastCall'.ret = 429)
        => \/ fetcher'.pc = "idle"
           \/ fetcher'.retryCount = fetcher.retryCount + 1 ]_vars

\* what does hold after a 429: the same execution waits for its next attempt
\* as long as it has attempts left.
C28_RetriedInsideFetch ==
    [][ (lastCall'.op = "response" /\ lastCall'.ret = 429 /\ fetcher.attempt < fetcher.maxRetries)
        => /\ fetcher'.pc = "backoff"
           /\ fetcher'.retryCount = fetcher.retryCount
           /\ fetcher'.at = clock' + RETRY_DELAY_MS * Pow2(fetcher.attempt) ]_vars


\* C29: an entry of a fetched listing that has no id is dropped: no feed
\* holds, staged or applied, a post without id.
C29_EntryWithoutIdDropped ==
    \A f \in FeedTypes :
        NoId \notin IdSet(feeds[f].posts) \cup IdSet(feeds[f].pending.posts)

\* the bodies that are not a listing
Malformed == { "notJson", "noChildren" }

\* C30: a response with status 200 and a malformed body gives no posts and no
\* failure: nothing is staged, the fetch step returns instead of trying
\* again, and the job is completed.
C30_MalformedYieldsNoItems ==
    [][ (lastCall'.op = "responseOk" /\ lastCall'.type \in Malformed)
        => /\ \A f \in FeedTypes :
                 Len(feeds'[f].pending.posts) <= Len(feeds[f].pending.posts)
           /\ \A p \in passes' : p.job # lastCall'.ret
           /\ \A i \in 1..Len(syncQueue') :
                 syncQueue'[i].id = lastCall'.ret => syncQueue'[i].status = "completed" ]_vars

\* what the code does with a malformed body: it stages nothing, and either
\* the fetch step tries again or the execution of the job has failed, so that
\* the job is taken again or given up.
C30_MalformedIsFailure ==
    [][ (lastCall'.op = "responseOk" /\ lastCall'.type \in Malformed)
        => /\ \A f \in FeedTypes :
                 Len(feeds'[f].pending.posts) <= Len(feeds[f].pending.posts)
           /\ \A i \in 1..Len(syncQueue') :
                 syncQueue'[i].id = lastCall'.ret
                    => syncQueue'[i].status \in { "processing", "failed_max_retries" } ]_vars


\* the job is in the queue before the step and not after it
Pruned(job) == \A k \in 1..Len(syncQueue') : syncQueue'[k].id # job.id

\* the job is failed_max_retries when the step removes it: it was so before
\* the step, or the step is the failure of its last execution
GivenUp(job) ==
    \/ job.status = "failed_max_retries"
    \/ /\ lastCall'.op = "fetchFails"
       /\ lastCall'.ret = job.id
       /\ job.status = "processing"
       /\ job.retries >= MAX_RETRIES

\* C27: a job that a pass removes from the queue as failed_max_retries has
\* been shown to the user as failed by then.
C27_PermanentFailureSurfaced ==
    [][ lastCall'.op \in { "processSyncQueue", "fetchFails", "fetchSucceeds" }
        => \A i \in 1..Len(syncQueue) :
               (Pruned(syncQueue[i]) /\ GivenUp(syncQueue[i]))
                  => syncQueue[i].id \in surfaced' ]_vars

\* what holds instead: the indicator never counts a job as failed, because a
\* job is failed only inside a run of the loop and every call of
\* updateQueueStatus finds it processing, given up or gone.
C27_NothingSurfaced == surfaced = {}

\* the entries of list after its first n
Added(list, n) == SubSeq(list, n + 1, Len(list))

\* after is before followed by entries of which none is, ignoring case, an
\* entry of before
NamesMerged(before, after) ==
    /\ Len(after) >= Len(before)
    /\ SubSeq(after, 1, Len(before)) = before
    /\ LowerCased(Added(after, Len(before))) \cap LowerCased(before) = {}

\* C26: an import never removes an entry of the followed sources, the blocked
\* sources, the blocked authors or the starred items; it adds no entry that is
\* already there (names compared ignoring case, starred items by id); and
\* importing the same document a second time adds nothing.
C26_ImportMerges ==
    /\ [][lastCall'.op = "importSubreddits" =>
            /\ NamesMerged(subreddits, subreddits')
            /\ NamesMerged(blocked, blocked')
            /\ NamesMerged(blockedUsers, blockedUsers')
            /\ LET before == feeds.starred.posts
                   after == feeds'.starred.posts
               IN /\ Len(after) >= Len(before)
                  /\ SubSeq(after, 1, Len(before)) = before
                  /\ IdSet(Added(after, Len(before))) \cap IdSet(before) = {}]_vars
    /\ [](\A data \in Documents :
             LET once == importLists(Lists, data).lists
             IN importLists(once, data).lists = once)

\* an import has added one of the subreddits of its document and skipped
\* another, to a list that had entries, and has added starred posts
C26_Witness ==
    /\ lastCall.op = "importSubreddits"
    /\ lastCall.type = "imported"
    /\ lastCall.ret.added > 0
    /\ lastCall.ret.offered > lastCall.ret.added
    /\ Len(subreddits) > lastCall.ret.added
    /\ blockedUsers = <<"u">> \/ feeds.starred.posts # <<>>

\* the first write of the saveState that has just run on the feeds fs failed
FirstWriteFailed(fs) ==
    /\ lastCall'.op = "saveState"
    /\ ~ setItemSucceeds(fs, lastCall'.ret.capacity)

\* C22: a save whose write fails because the storage is full runs one eviction
\* pass and writes once more, exactly once, then returns true or false: it
\* runs no second eviction pass, calls setItem twice in all, and never throws.
C22_OneEvictionOneRetry ==
    [][FirstWriteFailed(feeds) =>
          /\ lastCall'.type \in { "true", "false" }
          /\ lastCall'.posts[1] = 2
          /\ lastCall'.posts[2] <= 1]_vars

\* a save whose first write fails, while the usage is under the cleanup
\* threshold, evicts nothing, writes once more and returns false
C22_UnderThresholdOneRetry ==
    [][FirstWriteFailed(feeds) /\ belowThreshold(lastCall'.ret.percent) =>
          /\ lastCall'.type = "false"
          /\ lastCall'.posts = <<2, 0>>
          /\ feeds' = feeds]_vars

\* one pass of cleanupOldPosts on the feeds of this state frees enough for
\* the snapshot
OnePassFreesEnough ==
    /\ ~ belowThreshold(lastCall'.ret.percent)
    /\ setItemSucceeds(cleanupOldPosts(feeds, lastCall'.ret.percent), lastCall'.ret.capacity)

\* C23: when the first write fails and the eviction pass frees enough space,
\* the save stores the current state and returns true.
C23_SuccessAfterEviction ==
    [][FirstWriteFailed(feeds) /\ OnePassFreesEnough =>
          /\ lastCall'.type = "true"
          /\ lastCall'.ret.storedCurrent]_vars

\* when the first write fails and the eviction pass frees enough space, the
\* state after the eviction is stored, by the saveState that ends
\* cleanupOldPosts, and the save returns false
C23_StoredButReportedFailed ==
    [][FirstWriteFailed(feeds) /\ OnePassFreesEnough =>
          /\ lastCall'.type = "false"
          /\ lastCall'.ret.storedCurrent
          /\ lastCall'.posts = <<3, 1>>]_vars

\* a save whose first write fails never returns true
C23_NeverSuccessAfterFailure ==
    [][FirstWriteFailed(feeds) => lastCall'.type # "true"]_vars

\* C22, the part on exceptions: saveState never throws
C22_NeverThrows == ~ (lastCall.op = "saveState" /\ lastCall.type = "throws")

\* the state holds what loadState makes of the valid value of field f
LoadedValid(f) ==
    LET clean == cleanupOldPostsByAge(
                     [InitFeeds EXCEPT !.my.posts = ValidSnapshot.cachedPosts,
                                       !.popular.posts = ValidSnapshot.popularPosts,
                                       !.starred.posts = feeds.starred.posts], now)
    IN CASE f = "cachedPosts" -> feeds.my.posts = clean.my.posts
         [] f = "popularPosts" -> feeds.popular.posts = clean.popular.posts
         [] f = "bookmarkedPosts" -> feeds.starred.posts = ValidSnapshot.bookmarkedPosts
         [] f = "subreddits" -> subreddits = ValidSnapshot.subreddits
         [] f = "blockedSubreddits" -> blocked = ValidSnapshot.blockedSubreddits
         [] f = "syncQueue" ->
                syncQueue = validateSyncQueue(resetStuckJobs(ValidSnapshot.syncQueue, now), now)
         [] f = "rateLimitState" ->
                rateLimitState = loadRateLimitState(ValidSnapshot.rateLimitState, clock)

\* the state holds the default of field f
LoadedDefault(f) ==
    /\ f \notin lastCall.ret.malformed
    /\ CASE f = "cachedPosts" -> feeds.my.posts = <<>>
         [] f = "popularPosts" -> feeds.popular.posts = <<>>
         [] f = "bookmarkedPosts" -> feeds.starred.posts = <<>>
         [] f = "subreddits" -> subreddits = <<>>
         [] f = "blockedSubreddits" -> blocked = <<>>
         [] f = "syncQueue" -> syncQueue = <<>>
         [] f = "rateLimitState" -> rateLimitState = FreshRate(clock)

\* C24: loading a snapshot of which any field is missing or malformed
\* completes, with the default in each such field and the valid fields kept.
C24_CorruptedSnapshotLoads ==
    lastCall.op = "loadStateFrom" /\ lastCall.ret.snapshot.whole = "object" =>
        /\ lastCall.type = "completes"
        /\ \A f \in SnapshotFields :
              IF lastCall.ret.snapshot[f] = "valid" THEN LoadedValid(f) ELSE LoadedDefault(f)

\* a snapshot that is absent or unparsable, or of which fields are missing
\* and none is malformed, loads: defaults in the missing fields, the valid
\* fields kept
C24_MissingFieldsLoad ==
    /\ lastCall.op = "loadStateFrom"
    /\ \A f \in SnapshotFields : lastCall.ret.snapshot[f] # "malformed"
    => /\ lastCall.type = "completes"
       /\ \A f \in SnapshotFields :
             IF lastCall.ret.snapshot[f] = "valid" THEN LoadedValid(f) ELSE LoadedDefault(f)

\* a malformed list of posts or job queue makes loadState throw
C24_MalformedListThrows ==
    /\ lastCall.op = "loadStateFrom"
    /\ \E f \in { "cachedPosts", "popularPosts", "bookmarkedPosts", "syncQueue" } :
          lastCall.ret.snapshot[f] = "malformed"
    => lastCall.type = "throws"

\* no applied post of fs is past the maximum age at day t
NoneTooOldAll(fs, t) ==
    \A posts \in { fs.my.posts, fs.popular.posts } :
        \A i \in 1..Len(posts) : ~ (t - posts[i].created_utc > MAX_POST_AGE_DAYS)

\* the state holds nothing that a load at day t, tick c resets or removes: no
\* processing job, no job past the maximum job age, no rate-limit window that
\* has ended, no applied post past the maximum post age
NothingToRepair(t, c) ==
    /\ \A i \in 1..Len(syncQueue) :
          /\ syncQueue[i].status # "processing"
          /\ ~ (t - syncQueue[i].timestamp > MAX_JOB_AGE_DAYS)
    /\ ~ (c >= rateLimitState.resetTime)
    /\ NoneTooOldAll(feeds, t)

\* C25: saving a state and loading it back restores the applied posts, the
\* staged posts and the last-fetch map of each feed, the starred posts, the job
\* queue and the rate-limit state, when the state holds no processing job, no
\* expired job, no expired rate-limit window and no post older than the
\* maximum age.
C25_SaveLoadRoundTrip ==
    [][ lastCall'.op = "loadState" /\ NothingToRepair(now', clock') =>
          /\ feeds' = feeds
          /\ syncQueue' = syncQueue
          /\ rateLimitState' = rateLimitState ]_vars

\* a page has been loaded from a snapshot with applied posts, staged posts,
\* a last-fetch time and a job that has been tried, none of them to repair
C25_Witness ==
    /\ lastCall.op = "loadState"
    /\ NothingToRepair(now, clock)
    /\ feeds.my.posts # <<>>
    /\ feeds.my.pending.posts # <<>> \/ feeds.popular.pending.posts # <<>>
    /\ \E k \in LastFetchKeys : feeds.my.lastFetch[k] # 0
    /\ \E i \in 1..Len(syncQueue) : syncQueue[i].retries > 0

\* how often id is the id of a post of posts
Occurrences(posts, id) == Cardinality({ i \in 1..Len(posts) : posts[i].id = id })

\* the staging calls that the jobs of the followed feed can make
StagingCalls == { <<sub, posts>> : sub \in SourceKeys, posts \in UNION { Responses(k, MaxFetch) : k \in SourceKeys } }

\* the feeds after the staging calls first and second have run, one after
\* the other, each as one step
AfterBoth(first, second) ==
    addPostsToPending(addPostsToPending(feeds, first[2], "my", first[1]),
                      second[2], "my", second[1])

\* the ids of the two calls that the feed holds neither applied nor staged
NewIds(first, second) ==
    (IdSet(first[2]) \cup IdSet(second[2]))
    \ (IdSet(feeds.my.posts) \cup IdSet(feeds.my.pending.posts))

\* C31: two staging calls on the same feed, in either order, run one after
\* the other as atomic steps: the staging sequence then holds every new id of
\* the two calls exactly once.
C31_BothCallsStagedOnce ==
    \A first, second \in { c \in StagingCalls : c[2] \in Responses(c[1], MaxFetch) } :
        \A id \in NewIds(first, second) :
            Occurrences(AfterBoth(first, second).my.pending.posts, id) = 1

\* no update is lost: after the two calls the staging sequence starts with
\* what was staged before and holds every new id of the two calls
C31_NoLostUpdate ==
    \A first, second \in { c \in StagingCalls : c[2] \in Responses(c[1], MaxFetch) } :
        LET after == AfterBoth(first, second).my.pending.posts
            before == feeds.my.pending.posts
        IN /\ Len(after) >= Len(before)
           /\ SubSeq(after, 1, Len(before)) = before
           /\ \A id \in NewIds(first, second) : Occurrences(after, id) >= 1

\* C32: when the page is closed while a debounced save is requested and its
\* timer has not fired, the stored snapshot is that of the present state:
\* no requested write is lost.
C32_RequestedWriteStored ==
    [][lastCall'.op = "unload" /\ saveTimeout => appState = <<stringify(toSave)>>]_vars

\* when the page is closed after the timer has fired, the stored snapshot is
\* that of the present state, or nothing was ever to store
C32_StoredOnceTimerFired ==
    [][lastCall'.op = "unload" /\ ~ saveTimeout =>
          \/ appState = <<stringify(toSave)>>
          \/ appState = <<>> /\ syncQueue = <<>> /\ subreddits = <<>>]_vars

TooOld(post, t) == t - post.created_utc > MAX_POST_AGE_DAYS

NotEvictable(fs, t, post) == ~ TooOld(post, t) \/ post.id \in IdSet(fs.starred.posts)

C33_WitnessKept ==
    /\ lastCall.op = "applyPendingUpdates"
    /\ lastCall.type = "nothingStaged"
    /\ \E i \in 1..Len(feeds.my.posts) : now - feeds.my.posts[i].created_utc = MAX_POST_AGE_DAYS

\* the job whose execution ends in the step, 0 when none does
Ended ==
    IF lastCall'.op = "fetchSucceeds" THEN lastCall'.ret
    ELSE IF lastCall'.op = "fetchFails"
            /\ \E p \in passes : p.job = lastCall'.ret /\ p.attempt >= p.maxRetries
    THEN lastCall'.ret
    ELSE 0

\* the queue after "Update job status" of the step, before the loop goes on
Marked ==
    IF Ended = 0 THEN syncQueue
    ELSE SetStatus(syncQueue, Ended, IF lastCall'.op = "fetchSucceeds" THEN "completed" ELSE "failed")

JobIds(q) == { q[i].id : i \in 1..Len(q) }

StatusIn(q, id) == IF id \in JobIds(q) THEN q[JobById(q, id)].status ELSE "removed"

\* the status of job id when the step is over; a failed job that the step
\* has taken out of the queue was marked failed_max_retries by the loop
StatusAfter(id) ==
    IF id \in JobIds(syncQueue') THEN StatusIn(syncQueue', id)
    ELSE IF StatusIn(Marked, id) = "failed" THEN "failed_max_retries"
    ELSE "removed"

\* the changes of status that the step makes, each with the retries the job
\* had before the step
StatusChanges ==
    { e \in { [from |-> StatusIn(syncQueue, id), to |-> StatusIn(Marked, id),
               retries |-> syncQueue[JobById(syncQueue, id)].retries] : id \in JobIds(syncQueue) }
            \cup
            { [from |-> StatusIn(Marked, id), to |-> StatusAfter(id),
               retries |-> syncQueue[JobById(syncQueue, id)].retries] : id \in JobIds(syncQueue) } :
        e.from # e.to /\ e.to # "removed" }

\* C34: a job's status changes only from pending to processing, from
\* processing to completed or failed, from failed to pending, from pending
\* or failed to failed_max_retries once retries has reached the maximum, and
\* from processing to pending at startup; completed and failed_max_retries
\* are left by no change.
C34_OnlyClaimedEdges ==
    [][\A e \in StatusChanges :
          \/ e.from = "pending" /\ e.to = "processing"
          \/ e.from = "processing" /\ e.to \in { "completed", "failed" }
          \/ e.from = "failed" /\ e.to = "pending"
          \/ e.from \in { "pending", "failed" } /\ e.to = "failed_max_retries"
                /\ e.retries >= MAX_RETRIES
          \/ e.from = "processing" /\ e.to = "pending" /\ lastCall'.op = "loadState"]_vars

\* C34 (amended): the same, a failed job going not to pending but, in the
\* pass that ran it, straight to processing while its retries are below the
\* maximum.
C34_OnlyEdgesOfLoop ==
    [][\A e \in StatusChanges :
          \/ e.from = "pending" /\ e.to = "processing"
          \/ e.from = "processing" /\ e.to \in { "completed", "failed" }
          \/ e.from = "failed" /\ e.to = "processing" /\ e.retries < MAX_RETRIES
                /\ isProcessingQueue /\ isProcessingQueue'
          \/ e.from \in { "pending", "failed" } /\ e.to = "failed_max_retries"
                /\ e.retries >= MAX_RETRIES
          \/ e.from = "processing" /\ e.to = "pending" /\ lastCall'.op = "loadState"]_vars

\* a job whose execution failed has been taken again
C34_Witness ==
    /\ lastCall.op = "fetchFails"
    /\ isProcessingQueue
    /\ \E i \in 1..Len(syncQueue) :
          /\ syncQueue[i].id = lastCall.ret
          /\ syncQueue[i].status = "processing"
          /\ syncQueue[i].retries = 2
    /\ \E p \in passes : p.job = lastCall.ret /\ p.attempt = 0

\* a job has been marked failed_max_retries and taken out of the queue
C34_WitnessPermanent ==
    /\ lastCall.op = "fetchFails"
    /\ ~ isProcessingQueue
    /\ lastCall.ret \notin JobIds(syncQueue)

\* a restart has reset a processing job
C34_WitnessStartup ==
    /\ lastCall.op = "loadState"
    /\ \E i \in 1..Len(syncQueue) : syncQueue[i].status = "pending" /\ syncQueue[i].startTime # NoTime

\* the requests of one execution, the k-th, as C36 states them
RequestsOfExecution(k) == Min(3, MAX_RETRIES - (k - 1)) + 1

RECURSIVE RequestsBefore(_)
RequestsBefore(k) == IF k <= 1 THEN 0 ELSE RequestsBefore(k - 1) + RequestsOfExecution(k - 1)

\* the number that C36 gives the request of the activation f in the life of
\* its job: f is the execution f.retryCount + 1, at its attempt f.attempt
Ordinal(f) == RequestsBefore(f.retryCount + 1) + f.attempt + 1

\* C36: the k-th execution of a job makes at most min(3, MAX_RETRIES - (k-1))
\* + 1 requests, retry i comes RETRY_DELAY_MS * 2^i after the failure before
\* it, and a job whose requests all fail makes at most 4 + 3 + 2 = 9 requests:
\* the requests of a job are numbered one by one and the number stays within
\* these limits.
C36_RetrySchedule ==
    /\ [](fetcher.pc # "idle" =>
            /\ fetcher.retryCount + 1 \in 1..MAX_RETRIES
            /\ fetcher.attempt + 1 <= RequestsOfExecution(fetcher.retryCount + 1)
            /\ Ordinal(fetcher) <= 4 + 3 + 2)
    /\ [][/\ fetcher'.pc # "idle" /\ fetcher.pc = "idle" => Ordinal(fetcher') = 1
          /\ fetcher'.pc # "idle" /\ fetcher.pc # "idle" =>
                \/ Ordinal(fetcher') = Ordinal(fetcher)
                      /\ (fetcher.pc \in { "sleeping", "blocked" } \/ fetcher'.pc = "backoff")
                \/ Ordinal(fetcher') = Ordinal(fetcher) + 1
                      /\ fetcher.pc \in { "inflight", "backoff" }
                      /\ fetcher'.pc # "backoff"
          /\ fetcher'.pc = "backoff" =>
                /\ fetcher.pc = "inflight"
                /\ fetcher'.at - clock' = RETRY_DELAY_MS * 2^(fetcher'.attempt)
          /\ fetcher.pc = "backoff" =>
                /\ fetcher'.attempt = fetcher.attempt + 1
                /\ clock' >= fetcher.at
          /\ fetcher'.pc # "idle" /\ fetcher.pc # "idle" /\ fetcher'.attempt > 0
                /\ fetcher'.attempt # fetcher.attempt => fetcher.pc = "backoff"]_vars

\* the ninth request of a job is in flight, after the delay of its retry
C36_Witness ==
    /\ fetcher.pc = "inflight"
    /\ fetcher.retryCount = 2
    /\ fetcher.attempt = 1
    /\ lastCall.op = "backoffElapsed"

\* the queue holds no job that a pass has yet to run or to prune
NothingLeft(q) ==
    \A i \in 1..Len(q) :
        q[i].status \notin { "pending", "failed", "completed", "failed_max_retries" }

\* C35: a pass that has started ends, every request returning and the jobs
\* queued being finitely many: isProcessingQueue is cleared, with no job
\* pending, failed, completed or failed_max_retries in the queue.
C35_PassTerminates ==
    isProcessingQueue ~> (~ isProcessingQueue /\ passes = {} /\ NothingLeft(syncQueue))

\* every step that ends a pass leaves the queue so
C35_EveryEndLeavesNothing ==
    [][isProcessingQueue /\ ~ isProcessingQueue' => passes' = {} /\ NothingLeft(syncQueue')]_vars

\* a pass has run a job to its permanent failure and has ended
C35_Witness ==
    /\ lastCall.op = "fetchFails"
    /\ ~ isProcessingQueue
    /\ passes = {}
    /\ nextId > 1

Sorted(posts) ==
    \A i, j \in 1..Len(posts) : i < j => posts[i].created_utc >= posts[j].created_utc

\* C37: from empty feeds on, the posts of the followed feed and of the
\* popular feed are in the order of created_utc, newest first, whatever has
\* staged, applied, evicted, unfollowed, saved and loaded.
C37_AppliedSorted == Sorted(feeds.my.posts) /\ Sorted(feeds.popular.posts)

\* cleanupOldPosts has removed the oldest post of a feed of several posts
C37_Witness ==
    /\ lastCall.op = "cleanupOldPosts"
    /\ lastCall.type = "saveState"
    /\ Len(feeds.my.posts) >= 2
    /\ feeds.my.posts[1].created_utc > feeds.my.posts[Len(feeds.my.posts)].created_utc

\* C39: while r/a is not followed, the followed feed holds no post of r/a,
\* applied or staged.
C39_NoPostOfUnfollowed ==
    ~ Followed("a") =>
        /\ notOf(feeds.my.posts, "a") = feeds.my.posts
        /\ notOf(feeds.my.pending.posts, "a") = feeds.my.pending.posts

\* the step that unfollows r/a leaves no post of r/a in the followed feed
C39_UnfollowRemoves ==
    [][lastCall'.op = "removeSubreddit" =>
          /\ notOf(feeds'.my.posts, "a") = feeds'.my.posts
          /\ notOf(feeds'.my.pending.posts, "a") = feeds'.my.pending.posts]_vars

\* C40: a job queued while a pass is running is run by that pass: at the
\* step that ends a pass every job that is in the queue has been run by it
\* (none is pending) and none is in the queue afterwards.
C40_RunBySamePass ==
    [][isProcessingQueue /\ ~ isProcessingQueue' =>
          \A i \in 1..Len(syncQueue) :
              /\ syncQueue[i].status \in { "processing", "completed", "failed_max_retries" }
              /\ syncQueue[i].retries >= 1
              /\ syncQueue[i].id \notin JobIds(syncQueue')]_vars

\* a pass is running a job that was queued after the pass had completed
\* another job for the same feed, which is still in the queue
C40_Witness ==
    /\ isProcessingQueue
    /\ \E i, k \in 1..Len(syncQueue) :
          /\ i < k
          /\ syncQueue[i].status = "completed"
          /\ syncQueue[k].type = syncQueue[i].type
          /\ syncQueue[k].subreddit = syncQueue[i].subreddit
          /\ syncQueue[k].status = "processing"

\* the pass of C40_Witness has ended and the queue is empty
C40_WitnessEnded ==
    /\ ~ isProcessingQueue
    /\ syncQueue = <<>>
    /\ nextId > MaxJobs
    /\ lastCall.op = "fetchSucceeds"

\* the ids that the request of the job completed in the step has returned
\* are all in the posts or in the pending posts of the feed of the job
ReturnedAreInFeed ==
    LET feed == feeds'[IF lastCall'.type = "fetch_subreddit" THEN "my" ELSE "popular"]
    IN \A i \in 1..Len(lastCall'.posts) :
           lastCall'.posts[i] \in IdSet(feed.posts) \cup IdSet(feed.pending.posts)

\* C38: when a job is marked completed, every post that its request has
\* returned is in the posts or in the pending posts of its feed, also after
\* a staging callback has thrown.
C38_CompletedMeansStaged ==
    [][lastCall'.op = "fetchSucceeds" => ReturnedAreInFeed]_vars

\* the same while no staging callback has thrown
C38_StagedWhileLockFulfilled ==
    [][lastCall'.op = "fetchSucceeds" /\ pendingPostsLock' = "resolved" => ReturnedAreInFeed]_vars

\* once pendingPostsLock is rejected it stays rejected and nothing is staged
C38_RejectedForGood ==
    [][pendingPostsLock = "rejected" /\ lastCall'.op = "fetchSucceeds" =>
          /\ pendingPostsLock' = "rejected"
          /\ feeds'.my.pending = feeds.my.pending \/ feeds'.my.pending = EmptyPending
          /\ feeds'.popular.pending = feeds.popular.pending \/ feeds'.popular.pending = EmptyPending]_vars

====
